---- MODULE Spec2Model ----
(***************************************************************************)
(* PicoPak: package resolution, index mutation, archive transfer, install  *)
(* and submit, modelled from the TypeScript sources.                       *)
(*                                                                         *)
(* Strings whose characters the code inspects (versions, package names)    *)
(* are sequences of one-character strings, so that trim, toLowerCase,      *)
(* split and Number act on them as the JavaScript built-ins do.            *)
(***************************************************************************)
EXTENDS Integers, Sequences, FiniteSets, TLC

VARIABLES cmp, rsv, heap, cur, last, calls, dl, inst, sub, art, man, rem, pack,
          proj, trip

vars == <<cmp, rsv, heap, cur, last, calls, dl, inst, sub, art, man, rem, pack,
          proj, trip>>

(***************************************************************************)
(* JavaScript string primitives                                            *)
(***************************************************************************)

Digits == <<"0", "1", "2", "3", "4", "5", "6", "7", "8", "9">>

IsDigit(c) == \E i \in 1..10 : Digits[i] = c

DigitVal(c) == (CHOOSE i \in 1..10 : Digits[i] = c) - 1

Upper == <<"A", "B", "C", "D", "H", "M", "P", "R", "S", "V">>

Lower == <<"a", "b", "c", "d", "h", "m", "p", "r", "s", "v">>

\* String.prototype.toLowerCase, one character
LowerChar(c) == IF \E i \in 1..Len(Upper) : Upper[i] = c
                THEN Lower[CHOOSE i \in 1..Len(Upper) : Upper[i] = c]
                ELSE c

\* String.prototype.toLowerCase
toLowerCase(s) == [i \in 1..Len(s) |-> LowerChar(s[i])]

RECURSIVE TrimLeft(_)
TrimLeft(s) == IF s # <<>> /\ Head(s) = " " THEN TrimLeft(Tail(s)) ELSE s

RECURSIVE TrimRight(_)
TrimRight(s) == IF s # <<>> /\ s[Len(s)] = " "
                THEN TrimRight(SubSeq(s, 1, Len(s) - 1))
                ELSE s

\* String.prototype.trim
trim(s) == TrimRight(TrimLeft(s))

\* String.prototype.split(sep) for a one-character separator: every segment,
\* empty ones included ("a." gives <<"a", "">>, "" gives <<"">>).
RECURSIVE SplitFrom(_, _, _)
SplitFrom(s, sep, acc) ==
    IF s = <<>> THEN <<acc>>
    ELSE IF Head(s) = sep THEN <<acc>> \o SplitFrom(Tail(s), sep, <<>>)
    ELSE SplitFrom(Tail(s), sep, Append(acc, Head(s)))

split(s, sep) == SplitFrom(s, sep, <<>>)

\* String.prototype.split(sep, limit): the first `limit` segments of the full
\* split; the remainder of the string is dropped, not kept in the last segment.
splitLimit(s, sep, limit) ==
    LET all == split(s, sep)
    IN  IF Len(all) <= limit THEN all ELSE SubSeq(all, 1, limit)

NaN == -1

RECURSIVE DecimalValue(_)
DecimalValue(s) == IF s = <<>> THEN 0
                   ELSE 10 * DecimalValue(SubSeq(s, 1, Len(s) - 1)) + DigitVal(s[Len(s)])

\* Number(string) on the strings of this model: the empty (or blank) string
\* is 0, a run of decimal digits is its value, anything else is NaN.  (The
\* model's strings hold no sign, exponent, radix prefix or fraction.)
Number(s) ==
    LET t == trim(s)
    IN  IF t = <<>> THEN 0
        ELSE IF \A i \in 1..Len(t) : IsDigit(t[i]) THEN DecimalValue(t)
        ELSE NaN

\* Collation rank of a character for localeCompare on the identifiers of
\* this model (decimal digits and lower-case letters): digits sort before
\* letters, each group in its natural order.
CollationRank(c) ==
    IF IsDigit(c) THEN DigitVal(c)
    ELSE IF \E i \in 1..Len(Lower) : Lower[i] = c
         THEN 10 + (CHOOSE i \in 1..Len(Lower) : Lower[i] = c)
    ELSE 10 + Len(Lower) + 1

\* String.prototype.localeCompare: -1, 0 or 1
RECURSIVE localeCompare(_, _)
localeCompare(a, b) ==
    IF a = <<>> /\ b = <<>> THEN 0
    ELSE IF a = <<>> THEN -1
    ELSE IF b = <<>> THEN 1
    ELSE IF CollationRank(Head(a)) < CollationRank(Head(b)) THEN -1
    ELSE IF CollationRank(Head(a)) > CollationRank(Head(b)) THEN 1
    ELSE localeCompare(Tail(a), Tail(b))

(***************************************************************************)
(* resolver.ts: version comparison                                         *)
(***************************************************************************)

\* A normalization that only trims
trimOnly(value) == trim(value)

\* value.trim().replace(/^v/i, '')
normalizeVersion(value) ==
    LET t == trim(value)
    IN  IF t # <<>> /\ (Head(t) = "v" \/ Head(t) = "V") THEN Tail(t) ELSE t

\* { core: number[3], prerelease: string[] }
parseSemver(value) ==
    LET normalized == normalizeVersion(value)
        parts      == splitLimit(normalized, "-", 2)
        core       == parts[1]
        hasPre     == Len(parts) >= 2 /\ parts[2] # <<>>
        coreNums   == [i \in 1..Len(split(core, ".")) |-> Number(split(core, ".")[i])]
        padded     == coreNums \o <<0, 0, 0>>
    IN  [core       |-> [i \in 1..3 |-> IF padded[i] = NaN THEN 0 ELSE padded[i]],
         prerelease |-> IF hasPre THEN split(parts[2], ".") ELSE <<>>]

\* The loop over the prerelease identifiers of compareVersions, from index i
RECURSIVE comparePrerelease(_, _, _)
comparePrerelease(pa, pb, i) ==
    IF i > Len(pa) /\ i > Len(pb) THEN 0
    ELSE IF i > Len(pa) THEN -1
    ELSE IF i > Len(pb) THEN 1
    ELSE LET aNum   == Number(pa[i])
             bNum   == Number(pb[i])
             aIsNum == aNum # NaN
             bIsNum == bNum # NaN
         IN  IF aIsNum /\ bIsNum /\ aNum # bNum THEN aNum - bNum
             ELSE IF aIsNum # bIsNum THEN (IF aIsNum THEN -1 ELSE 1)
             ELSE IF pa[i] # pb[i] THEN localeCompare(pa[i], pb[i])
             ELSE comparePrerelease(pa, pb, i + 1)

compareVersions(a, b) ==
    LET parsedA == parseSemver(a)
        parsedB == parseSemver(b)
    IN  IF parsedA.core[1] # parsedB.core[1] THEN parsedA.core[1] - parsedB.core[1]
        ELSE IF parsedA.core[2] # parsedB.core[2] THEN parsedA.core[2] - parsedB.core[2]
        ELSE IF parsedA.core[3] # parsedB.core[3] THEN parsedA.core[3] - parsedB.core[3]
        ELSE IF Len(parsedA.prerelease) = 0 /\ Len(parsedB.prerelease) > 0 THEN 1
        ELSE IF Len(parsedA.prerelease) > 0 /\ Len(parsedB.prerelease) = 0 THEN -1
        ELSE comparePrerelease(parsedA.prerelease, parsedB.prerelease, 1)

\* A prerelease test that looks at the flag alone
flagOnly(release) == release.prerelease = "true"

\* release.prerelease !== undefined ? !!release.prerelease
\*                                  : normalizeVersion(release.version).includes('-')
isPrerelease(release) ==
    IF release.prerelease # "undefined" THEN release.prerelease = "true"
    ELSE \E i \in 1..Len(normalizeVersion(release.version)) :
             normalizeVersion(release.version)[i] = "-"

(***************************************************************************)
(* resolver.ts: release selection                                          *)
(***************************************************************************)

\* One step of a stable sort under the comparator
\* (a, b) => compareVersions(b.version, a.version): x goes behind every
\* element it does not strictly precede.
RECURSIVE InsertSorted(_, _)
InsertSorted(sorted, x) ==
    IF sorted = <<>> THEN <<x>>
    ELSE LET e == sorted[Len(sorted)]
         IN  IF compareVersions(x.version, e.version) > 0
             THEN Append(InsertSorted(SubSeq(sorted, 1, Len(sorted) - 1), x), e)
             ELSE Append(sorted, x)

\* [...releases].sort((a, b) => compareVersions(b.version, a.version))
RECURSIVE sortDescending(_)
sortDescending(releases) ==
    IF releases = <<>> THEN <<>>
    ELSE InsertSorted(sortDescending(SubSeq(releases, 1, Len(releases) - 1)),
                      releases[Len(releases)])

\* Array.prototype.find with a predicate given as the set of matching indices
FirstIndex(matching) == CHOOSE i \in matching : \A j \in matching : i <= j

\* selectRelease(packageEntry, { version, includePrerelease }).  options.version
\* is <<>> when no version was requested (an empty string is falsy as well).
selectRelease(releases, version, includePrerelease) ==
    IF Len(releases) = 0 THEN [ok |-> FALSE, error |-> "no-releases"]
    ELSE IF version # <<>> THEN
        LET matching == {i \in 1..Len(releases) :
                            normalizeVersion(releases[i].version) = normalizeVersion(version)}
        IN  IF matching = {} THEN [ok |-> FALSE, error |-> "version-not-found"]
            ELSE [ok |-> TRUE, release |-> releases[FirstIndex(matching)]]
    ELSE
        LET sorted == sortDescending(releases)
            stable == {i \in 1..Len(sorted) : ~isPrerelease(sorted[i])}
        IN  IF includePrerelease THEN [ok |-> TRUE, release |-> sorted[1]]
            ELSE IF stable = {} THEN [ok |-> FALSE, error |-> "no-stable"]
            ELSE [ok |-> TRUE, release |-> sorted[FirstIndex(stable)]]

(***************************************************************************)
(* Version strings used as inputs                                          *)
(***************************************************************************)

V_1_2_3       == <<"1", ".", "2", ".", "3">>
V_1_2_3_rc_2  == <<"1", ".", "2", ".", "3", "-", "r", "c", ".", "2">>
V_1_2_3_rc_1  == <<"1", ".", "2", ".", "3", "-", "r", "c", ".", "1">>
V_1_2_3_rc_10 == <<"1", ".", "2", ".", "3", "-", "r", "c", ".", "1", "0">>
V_1_2_3_rc    == <<"1", ".", "2", ".", "3", "-", "r", "c">>
V_1_2_3_1     == <<"1", ".", "2", ".", "3", "-", "1">>
V_1_2_3_rcH1  == <<"1", ".", "2", ".", "3", "-", "r", "c", "-", "1">>
V_1_2_3_rcH2  == <<"1", ".", "2", ".", "3", "-", "r", "c", "-", "2">>
V_1_2_0       == <<"1", ".", "2", ".", "0">>
V_v1_2_3      == <<"v", "1", ".", "2", ".", "3">>
V_sp_1_2_3    == <<" ", "1", ".", "2", ".", "3">>
V_1_10_0      == <<"1", ".", "1", "0", ".", "0">>
V_1_9_9       == <<"1", ".", "9", ".", "9">>
V_2_0_0_beta  == <<"2", ".", "0", ".", "0", "-", "b", "a">>
V_3_10_2      == <<"3", ".", "1", "0", ".", "2">>
V_3_10_3_rc1  == <<"3", ".", "1", "0", ".", "3", "-", "r", "c", "1">>

\* Inputs of the comparison
VersionPool ==
    {V_1_2_3, V_1_2_3_rc_2, V_1_2_3_rc_1, V_1_2_3_rc_10, V_1_2_3_rc, V_1_2_3_1,
     V_1_2_3_rcH1, V_1_2_3_rcH2, V_1_2_0, V_v1_2_3, V_sp_1_2_3, V_1_10_0,
     V_1_9_9, V_2_0_0_beta, V_3_10_2, V_3_10_3_rc1}

\* Versions of the releases of an index package handed to selectRelease
ReleaseVersions ==
    {V_1_2_3, V_1_2_3_rc_1, V_1_2_3_rcH1, V_1_2_3_1, V_v1_2_3, V_1_9_9, V_2_0_0_beta}

PrereleaseFlags == {"undefined", "true", "false"}

\* Longest releases list of a package
MaxReleases == 2

ReleaseEntries == [version : ReleaseVersions, prerelease : PrereleaseFlags]

ReleaseLists == UNION {[1..n -> ReleaseEntries] : n \in 0..MaxReleases}

(***************************************************************************)
(* Idle values of the parts a specification does not exercise              *)
(***************************************************************************)

IdleCmp == [pc |-> "idle"]
IdleRsv == [pc |-> "idle"]
IdleIndex == [pc |-> "idle"]
IdleDl == [pc |-> "idle"]
IdleInst == [pc |-> "idle"]
IdleSub == [pc |-> "idle"]
IdleArt == [pc |-> "idle"]
IdleMan == [pc |-> "idle"]
IdleRem == [pc |-> "idle"]
IdlePack == [pc |-> "idle"]
IdleProj == [pc |-> "idle"]
IdleTrip == [pc |-> "idle"]

(***************************************************************************)
(* Specification of the comparison: two version strings are drawn and      *)
(* compareVersions is applied.                                             *)
(***************************************************************************)

InitCompare ==
    /\ proj = IdleProj /\ trip = IdleTrip
    /\ art = IdleArt /\ man = IdleMan /\ rem = IdleRem /\ pack = IdlePack
    /\ cmp \in [pc : {"in"}, a : VersionPool, b : VersionPool, r : {0}]
    /\ rsv = IdleRsv
    /\ heap = IdleIndex /\ cur = "r1" /\ last = IdleIndex /\ calls = 0
    /\ dl = IdleDl /\ inst = IdleInst /\ sub = IdleSub

Compare ==
    /\ cmp.pc = "in"
    /\ cmp' = [cmp EXCEPT !.pc = "out", !.r = compareVersions(cmp.a, cmp.b)]
    /\ UNCHANGED <<proj, trip, art, man, rem, pack, rsv, heap, cur, last, calls, dl, inst, sub>>

NextCompare == Compare

SpecCompare == InitCompare /\ [][NextCompare]_vars

(***************************************************************************)
(* Specification of release selection: a releases list and the options     *)
(* are drawn and selectRelease is applied.                                 *)
(***************************************************************************)

InitResolve ==
    /\ proj = IdleProj /\ trip = IdleTrip
    /\ art = IdleArt /\ man = IdleMan /\ rem = IdleRem /\ pack = IdlePack
    /\ rsv \in [pc : {"in"}, releases : ReleaseLists,
                version : {<<>>, V_1_2_3, V_v1_2_3, V_1_2_0, V_1_2_3_rc_1},
                includePrerelease : BOOLEAN, result : {[ok |-> FALSE, error |-> "none"]}]
    /\ cmp = IdleCmp
    /\ heap = IdleIndex /\ cur = "r1" /\ last = IdleIndex /\ calls = 0
    /\ dl = IdleDl /\ inst = IdleInst /\ sub = IdleSub

Select ==
    /\ rsv.pc = "in"
    /\ rsv' = [rsv EXCEPT !.pc = "out",
                          !.result = selectRelease(rsv.releases, rsv.version,
                                                   rsv.includePrerelease)]
    /\ UNCHANGED <<proj, trip, art, man, rem, pack, cmp, heap, cur, last, calls, dl, inst, sub>>

NextResolve == Select

SpecResolve == InitResolve /\ [][NextResolve]_vars

(***************************************************************************)
(* Semantic-version precedence as the specification states it, written     *)
(* independently of compareVersions: the reference the claims compare the  *)
(* code against.                                                           *)
(***************************************************************************)

AsciiOrder == <<"-", "0", "1", "2", "3", "4", "5", "6", "7", "8", "9",
                ":", "A", "B", "C", "D", "H", "M", "R", "S", "V",
                "a", "b", "c", "d", "h", "m", "r", "s", "v">>

AsciiRank(c) == CHOOSE i \in 1..Len(AsciiOrder) : AsciiOrder[i] = c

RECURSIVE AsciiCompare(_, _)
AsciiCompare(a, b) ==
    IF a = <<>> /\ b = <<>> THEN 0
    ELSE IF a = <<>> THEN -1
    ELSE IF b = <<>> THEN 1
    ELSE IF AsciiRank(Head(a)) < AsciiRank(Head(b)) THEN -1
    ELSE IF AsciiRank(Head(a)) > AsciiRank(Head(b)) THEN 1
    ELSE AsciiCompare(Tail(a), Tail(b))

Sign(n) == IF n < 0 THEN -1 ELSE IF n > 0 THEN 1 ELSE 0

\* Position of the first hyphen of s, or 0
FirstHyphen(s) == IF \E i \in 1..Len(s) : s[i] = "-"
                  THEN CHOOSE i \in 1..Len(s) : s[i] = "-" /\ \A j \in 1..(i - 1) : s[j] # "-"
                  ELSE 0

\* The three core numbers of a version
SemverCore(v) ==
    LET n    == normalizeVersion(v)
        h    == FirstHyphen(n)
        core == IF h = 0 THEN n ELSE SubSeq(n, 1, h - 1)
        nums == split(core, ".")
    IN  [i \in 1..3 |-> DecimalValue(nums[i])]

\* The prerelease tag of a version: everything behind the first hyphen,
\* cut into its dot-separated identifiers (an identifier may hold hyphens)
SemverTag(v) ==
    LET n == normalizeVersion(v)
        h == FirstHyphen(n)
    IN  IF h = 0 THEN <<>> ELSE split(SubSeq(n, h + 1, Len(n)), ".")

IsNumericIdentifier(id) == id # <<>> /\ \A i \in 1..Len(id) : IsDigit(id[i])

RECURSIVE SemverTagOrder(_, _)
SemverTagOrder(ta, tb) ==
    IF ta = <<>> /\ tb = <<>> THEN 0
    ELSE IF ta = <<>> THEN -1
    ELSE IF tb = <<>> THEN 1
    ELSE LET x == Head(ta)
             y == Head(tb)
             c == IF IsNumericIdentifier(x) /\ IsNumericIdentifier(y)
                     THEN Sign(DecimalValue(x) - DecimalValue(y))
                  ELSE IF IsNumericIdentifier(x) THEN -1
                  ELSE IF IsNumericIdentifier(y) THEN 1
                  ELSE AsciiCompare(x, y)
         IN  IF c # 0 THEN c ELSE SemverTagOrder(Tail(ta), Tail(tb))

\* -1, 0 or 1 as a precedes, equals or follows b in semantic-version precedence
SemverOrder(a, b) ==
    LET ca == SemverCore(a)
        cb == SemverCore(b)
        ta == SemverTag(a)
        tb == SemverTag(b)
    IN  IF ca[1] # cb[1] THEN Sign(ca[1] - cb[1])
        ELSE IF ca[2] # cb[2] THEN Sign(ca[2] - cb[2])
        ELSE IF ca[3] # cb[3] THEN Sign(ca[3] - cb[3])
        ELSE IF ta = <<>> /\ tb = <<>> THEN 0
        ELSE IF ta = <<>> THEN 1
        ELSE IF tb = <<>> THEN -1
        ELSE SemverTagOrder(ta, tb)

\* The ordering chain the specification quotes: 1.2.3 > 1.2.3-rc.2 > 1.2.3-rc.1 > 1.2.0
QuotedChainHolds ==
    /\ compareVersions(V_1_2_3, V_1_2_3_rc_2) > 0
    /\ compareVersions(V_1_2_3_rc_2, V_1_2_3_rc_1) > 0
    /\ compareVersions(V_1_2_3_rc_1, V_1_2_0) > 0

\* C10: whenever two versions have been compared, the sign of the result is
\* their order in semantic-version precedence (core numbers first, a version
\* without a tag above one with a tag, tags identifier by identifier, numeric
\* identifiers numerically and below alphanumeric ones), and the quoted chain
\* 1.2.3 > 1.2.3-rc.2 > 1.2.3-rc.1 > 1.2.0 holds.
C10_CompareIsSemverPrecedence ==
    cmp.pc = "out" =>
        /\ Sign(cmp.r) = SemverOrder(cmp.a, cmp.b)
        /\ QuotedChainHolds

\* The releases among which the latest is chosen
Candidates(releases, includePrerelease) ==
    {i \in 1..Len(releases) : includePrerelease \/ ~isPrerelease(releases[i])}

Rel(v, flag) == [version |-> v, prerelease |-> flag]

\* The examples of the specification: {3.10.2 stable, 3.10.3-rc1 prerelease}
\* and ["2.0.0-beta", "1.9.9"]
QuotedSelectionsHold ==
    LET fast == <<Rel(V_3_10_2, "false"), Rel(V_3_10_3_rc1, "true")>>
        beta == <<Rel(V_2_0_0_beta, "undefined"), Rel(V_1_9_9, "undefined")>>
    IN  /\ selectRelease(fast, <<>>, FALSE) = [ok |-> TRUE, release |-> fast[1]]
        /\ selectRelease(fast, <<>>, TRUE) = [ok |-> TRUE, release |-> fast[2]]
        /\ selectRelease(beta, <<>>, FALSE) = [ok |-> TRUE, release |-> beta[2]]

\* C9: with no version requested, selectRelease returns a release of highest
\* semantic-version precedence among the non-prerelease releases (among all
\* releases with includePrerelease), fails with the no-stable error when no
\* candidate is left, and the quoted examples select 3.10.2, 3.10.3-rc1 and
\* 1.9.9.
C9_LatestIsHighestPrecedence ==
    (rsv.pc = "out" /\ rsv.version = <<>> /\ Len(rsv.releases) > 0) =>
        LET cand == Candidates(rsv.releases, rsv.includePrerelease)
        IN  /\ QuotedSelectionsHold
            /\ IF cand = {}
               THEN rsv.result = [ok |-> FALSE, error |-> "no-stable"]
               ELSE /\ rsv.result.ok
                    /\ \E i \in cand : rsv.releases[i] = rsv.result.release
                    /\ \A i \in cand :
                         SemverOrder(rsv.releases[i].version,
                                     rsv.result.release.version) <= 0

(***************************************************************************)
(* submit.ts: the index mutator                                            *)
(*                                                                         *)
(* Documents are JavaScript objects, so the model keeps them in a heap of  *)
(* cells addressed by reference: a root cell (the index object) and the    *)
(* cell of its `packages` member.  A root cell holds its `packages` as a   *)
(* reference to a packages cell, or as "absent" (a falsy value), or as     *)
(* "other" (a truthy value that is no object).  Two documents are held at  *)
(* a time: the one the caller owns and the working copy of the call.       *)
(***************************************************************************)

RootRefs == {"r1", "r2"}

PkRefs == {"p1", "p2"}

Other(ref) == IF ref = "r1" THEN "r2" ELSE "r1"

\* The packages cell a root allocates for itself
PkOf(ref) == IF ref = "r1" THEN "p1" ELSE "p2"

IsPkRef(x) == x \in PkRefs

FreeCell == [kind |-> "free"]

EmptyMap == [kind |-> "map", entries |-> <<>>]

EmptyArray == [kind |-> "array", items |-> <<>>]

\* The whole document reachable from a root reference, as a value
Value(h, ref) ==
    <<h[ref], IF IsPkRef(h[ref].packages) THEN h[h[ref].packages] ELSE FreeCell>>

\* A copy of the root object alone, which shares the packages cell with the
\* original: what { ...value } would give
ShallowClone(h, ref) ==
    [heap |-> [h EXCEPT ![Other(ref)] = h[ref], ![PkOf(Other(ref))] = FreeCell],
     ref  |-> Other(ref)]

\* JSON.parse(JSON.stringify(value)): a new root cell and a new packages cell
\* holding equal content.  (The documents come from JSON.parse, so the text
\* round trip loses nothing of them.)
structuredCloneJson(h, ref) ==
    LET out == Other(ref)
        src == h[ref]
    IN  [heap |-> IF IsPkRef(src.packages)
                  THEN [h EXCEPT ![out] = [src EXCEPT !.packages = PkOf(out)],
                                 ![PkOf(out)] = h[src.packages]]
                  ELSE [h EXCEPT ![out] = src, ![PkOf(out)] = FreeCell],
         ref  |-> out]

\* releases.some(entry => String(entry.version || '').trim().toLowerCase()
\*                        === version.toLowerCase())
arrayHasVersion(items, version) ==
    \E i \in 1..Len(items) :
        toLowerCase(trim(items[i].version)) = toLowerCase(version)

\* record[key] is truthy (every stored value is an object)
mapHasKey(entries, key) == \E i \in 1..Len(entries) : entries[i].key = key

\* !packages[packageName] is false
hasPackage(entries, packageName) == mapHasKey(entries, packageName)

\* A version lookup that never finds the key
NeverHasRelease(entries, version) == FALSE

\* releases[version] is truthy
hasRelease(entries, version) == mapHasKey(entries, version)

mapGet(entries, key) == entries[CHOOSE i \in 1..Len(entries) : entries[i].key = key].value

\* record[key] = value: replaces the value of an existing key in place, adds
\* a new key behind the others
mapSet(entries, key, value) ==
    IF \E i \in 1..Len(entries) : entries[i].key = key
    THEN [i \in 1..Len(entries) |->
            IF entries[i].key = key THEN [key |-> key, value |-> value] ELSE entries[i]]
    ELSE Append(entries, [key |-> key, value |-> value])

\* A find-or-create of the package node by its exact name
applyToArrayExact(cell, packageName, version, payload) ==
    LET matching == {i \in 1..Len(cell.items) : cell.items[i].name = packageName}
        items1   == IF matching # {} THEN cell.items
                    ELSE Append(cell.items, [name |-> packageName, description |-> 0,
                                             releases |-> [kind |-> "array", items |-> <<>>]])
        idx      == IF matching # {} THEN FirstIndex(matching) ELSE Len(items1)
        releases == items1[idx].releases
    IN  IF releases.kind # "array"
        THEN [cell |-> [cell EXCEPT !.items = items1], status |-> "format"]
        ELSE [cell |-> [cell EXCEPT !.items =
                           [items1 EXCEPT ![idx].releases.items = Append(@, payload)]],
              status |-> "ok"]

\* applyToArrayPackages(packages, packageName, version, payload) on the
\* packages cell: the cell as the call leaves it, and how the call ends
applyToArrayPackages(cell, packageName, version, payload) ==
    LET matching == {i \in 1..Len(cell.items) :
                        /\ cell.items[i].name # <<>>
                        /\ toLowerCase(cell.items[i].name) = toLowerCase(packageName)}
        items1   == IF matching # {} THEN cell.items
                    ELSE Append(cell.items, [name |-> packageName, description |-> 0,
                                             releases |-> EmptyArray])
        idx      == IF matching # {} THEN FirstIndex(matching) ELSE Len(items1)
        releases == items1[idx].releases
    IN  IF releases.kind # "array"
        THEN [cell |-> [cell EXCEPT !.items = items1], status |-> "format"]
        ELSE IF arrayHasVersion(releases.items, version)
        THEN [cell |-> [cell EXCEPT !.items = items1], status |-> "conflict"]
        ELSE [cell |-> [cell EXCEPT !.items =
                           [items1 EXCEPT ![idx].releases.items = Append(@, payload)]],
              status |-> "ok"]

\* A publication that rewrites the releases of the node as a version-keyed map
applyConverting(node, packageName, version, payload) ==
    [node |-> [node EXCEPT !.releases =
                 [kind |-> "map", entries |-> <<[key |-> version, value |-> payload]>>]],
     status |-> "ok"]

\* applyToPackageReleases(packageNode, packageName, version, payload): the node
\* as the call leaves it, and how the call ends
applyToPackageReleases(node, packageName, version, payload) ==
    LET n1 == [node EXCEPT
                 !.name = IF @ = <<>> THEN packageName ELSE @,
                 !.description = IF @ = 0 THEN payload.description ELSE @,
                 !.releases = IF @.kind = "absent" THEN EmptyMap ELSE @]
    IN  IF n1.releases.kind = "array"
        THEN IF arrayHasVersion(n1.releases.items, version)
             THEN [node |-> n1, status |-> "conflict"]
             ELSE [node |-> [n1 EXCEPT !.releases.items = Append(@, payload)],
                   status |-> "ok"]
        ELSE IF n1.releases.kind # "map"
        THEN [node |-> n1, status |-> "format"]
        ELSE IF hasRelease(n1.releases.entries, version)
        THEN [node |-> n1, status |-> "conflict"]
        ELSE [node |-> [n1 EXCEPT !.releases.entries = mapSet(@, version, payload)],
              status |-> "ok"]

\* applyReleaseToIndex(indexData, packageName, version, payload): the heap
\* after the call, how it ends ("ok", or the kind of fail(...)) and the
\* reference of the working copy (returned when the call ends "ok")
applyReleaseToIndex(h, indexData, packageName, version, payload) ==
    LET c    == structuredCloneJson(h, indexData)
        h1   == c.heap
        root == c.ref
    IN  IF h1[root].kind # "object"
        THEN [heap |-> h1, status |-> "format", ref |-> root]
        ELSE IF IsPkRef(h1[root].packages) /\ h1[h1[root].packages].kind = "array"
        THEN LET pk == h1[root].packages
                 r  == applyToArrayPackages(h1[pk], packageName, version, payload)
             IN  [heap |-> [h1 EXCEPT ![pk] = r.cell], status |-> r.status, ref |-> root]
        ELSE LET h2 == IF h1[root].packages = "absent"
                       THEN [h1 EXCEPT ![root].packages = PkOf(root),
                                       ![PkOf(root)] = EmptyMap]
                       ELSE h1
             IN  IF ~IsPkRef(h2[root].packages)
                 THEN [heap |-> h2, status |-> "format", ref |-> root]
                 ELSE LET pk   == h2[root].packages
                          ent1 == IF hasPackage(h2[pk].entries, packageName)
                                  THEN h2[pk].entries
                                  ELSE mapSet(h2[pk].entries, packageName,
                                              [name |-> packageName, description |-> 0,
                                               releases |-> EmptyMap])
                          r    == applyToPackageReleases(mapGet(ent1, packageName),
                                                         packageName, version, payload)
                      IN  [heap |-> [h2 EXCEPT ![pk].entries =
                                        mapSet(ent1, packageName, r.node)],
                           status |-> r.status, ref |-> root]

(***************************************************************************)
(* Inputs of the index mutator                                             *)
(***************************************************************************)

N_ab == <<"a", "b">>
N_Ab == <<"A", "b">>
N_cd == <<"c", "d">>

PackageNames == {N_ab, N_Ab, N_cd}

IV_1_0_0    == <<"1", ".", "0", ".", "0">>
IV_v1_0_0   == <<"v", "1", ".", "0", ".", "0">>
IV_1_0_0_sp == <<"1", ".", "0", ".", "0", " ">>
IV_2_0_0    == <<"2", ".", "0", ".", "0">>

\* metadata.package.version as submit reads it from the metadata file
\* (validatePackMetadata only requires it to be truthy)
IndexVersions == {IV_1_0_0, IV_v1_0_0, IV_1_0_0_sp, IV_2_0_0}

\* Resolved artifact URLs (the --artifact-url option)
ArtifactUrls == {1, 2}

\* Calls of applyReleaseToIndex in one behaviour
MaxCalls == 2

\* buildReleasePayload(metadata, artifactUrlOption) for a stable package that
\* supports rp2040
buildReleasePayload(version, url) ==
    [version |-> version, prerelease |-> "false", description |-> 1,
     artifacts |-> <<[key |-> "rp2040", value |-> [url |-> url, sha256 |-> 1]]>>]

\* A release that is in the index from the start
Published(version) ==
    [version |-> version, prerelease |-> "false", description |-> 2,
     artifacts |-> <<[key |-> "rp2040", value |-> [url |-> 0, sha256 |-> 0]]>>]

Node(name, description, releases) ==
    [name |-> name, description |-> description, releases |-> releases]

ReleasesArray(items) == [kind |-> "array", items |-> items]

ReleasesMap(entries) == [kind |-> "map", entries |-> entries]

\* The shapes of the `packages` member of the documents the calls start from
InitialPackages ==
    { EmptyArray,
      [kind |-> "array",
       items |-> <<Node(N_ab, 2, ReleasesArray(<<Published(IV_1_0_0)>>))>>],
      [kind |-> "array",
       items |-> <<Node(N_cd, 2, ReleasesMap(<<[key |-> IV_1_0_0,
                                                 value |-> Published(IV_1_0_0)]>>))>>],
      EmptyMap,
      [kind |-> "map",
       entries |-> <<[key |-> N_ab,
                      value |-> Node(N_ab, 2, ReleasesMap(<<[key |-> IV_1_0_0,
                                                  value |-> Published(IV_1_0_0)]>>))]>>],
      [kind |-> "map",
       entries |-> <<[key |-> N_ab,
                      value |-> Node(N_ab, 2, ReleasesArray(<<Published(IV_v1_0_0)>>))]>>],
      [kind |-> "map",
       entries |-> <<[key |-> N_cd,
                      value |-> Node(<<>>, 0, [kind |-> "absent"])]>>],
      [kind |-> "map",
       entries |-> <<[key |-> N_cd,
                      value |-> Node(N_cd, 2, [kind |-> "other"])]>>] }

\* The heaps the calls start from: the caller's document at r1
InitialHeaps ==
    {[r1 |-> [kind |-> "object", packages |-> "p1"], p1 |-> pk,
      r2 |-> [kind |-> "free", packages |-> "absent"], p2 |-> FreeCell] :
        pk \in InitialPackages}
    \cup
    {[r1 |-> [kind |-> k, packages |-> x], p1 |-> FreeCell,
      r2 |-> [kind |-> "free", packages |-> "absent"], p2 |-> FreeCell] :
        k \in {"object", "notobject"}, x \in {"absent", "other"}}

NoCall == [pkg |-> <<>>, version |-> <<>>, status |-> "none", repeat |-> FALSE]


(***************************************************************************)
(* Specification of the index mutator: applyReleaseToIndex is called up to *)
(* MaxCalls times; a call that succeeds hands its result to the next.      *)
(***************************************************************************)

InitIndex ==
    /\ proj = IdleProj /\ trip = IdleTrip
    /\ art = IdleArt /\ man = IdleMan /\ rem = IdleRem /\ pack = IdlePack
    /\ heap \in InitialHeaps
    /\ cur = "r1"
    /\ last = NoCall
    /\ calls = 0
    /\ cmp = IdleCmp /\ rsv = IdleRsv /\ dl = IdleDl /\ inst = IdleInst /\ sub = IdleSub

\* One call applyReleaseToIndex(current document, pkg, version, payload).
\* last.repeat records that the call repeats the package and version of the
\* call before it, which had succeeded.
Apply ==
    /\ calls < MaxCalls
    /\ \E pkg \in PackageNames, version \in IndexVersions, url \in ArtifactUrls :
         LET r == applyReleaseToIndex(heap, cur, pkg, version,
                                      buildReleasePayload(version, url))
         IN  /\ heap' = r.heap
             /\ cur' = IF r.status = "ok" THEN r.ref ELSE cur
             /\ last' = [pkg |-> pkg, version |-> version, status |-> r.status,
                         repeat |-> /\ last.status = "ok"
                                    /\ last.pkg = pkg
                                    /\ last.version = version]
    /\ calls' = calls + 1
    /\ UNCHANGED <<proj, trip, art, man, rem, pack, cmp, rsv, dl, inst, sub>>

NextIndex == Apply

SpecIndex == InitIndex /\ [][NextIndex]_vars

\* C1: a call that repeats the package and version of the successful call
\* before it, on the document that call returned, ends in a conflict and
\* returns no document.
C1_RepublishConflicts ==
    last.repeat => (last.status = "conflict")

\* The releases of one package node are kept: an array keeps its entries at
\* their positions, a map keeps its keys with their payloads.
ReleasesKept(old, new) ==
    IF old.kind = "array"
    THEN /\ new.kind = "array"
         /\ Len(new.items) >= Len(old.items)
         /\ \A i \in 1..Len(old.items) : new.items[i] = old.items[i]
    ELSE IF old.kind = "map"
    THEN /\ new.kind = "map"
         /\ \A i \in 1..Len(old.entries) :
               \E j \in 1..Len(new.entries) : new.entries[j] = old.entries[i]
    ELSE TRUE

\* Every release entry of the old packages member is in the new one, under
\* the same package node
PackagesKept(old, new) ==
    IF old.kind = "array"
    THEN /\ new.kind = "array"
         /\ Len(new.items) >= Len(old.items)
         /\ \A i \in 1..Len(old.items) :
               ReleasesKept(old.items[i].releases, new.items[i].releases)
    ELSE IF old.kind = "map"
    THEN /\ new.kind = "map"
         /\ \A i \in 1..Len(old.entries) :
               \E j \in 1..Len(new.entries) :
                  /\ new.entries[j].key = old.entries[i].key
                  /\ ReleasesKept(old.entries[i].value.releases,
                                  new.entries[j].value.releases)
    ELSE TRUE

\* C2: across every call, successful or failed, each release entry of the
\* caller's document before the call is in the caller's document after the
\* call, under the same package, with the same payload.
C2_PublishingIsAdditive ==
    [][PackagesKept(Value(heap, cur)[2], Value(heap', cur')[2])]_vars

\* C2 witness: a call succeeded on a package that already had a release, so
\* one package node now holds two releases
C2_Witness ==
    /\ last.status = "ok"
    /\ LET pk == Value(heap, cur)[2]
       IN  \/ /\ pk.kind = "array"
              /\ \E i \in 1..Len(pk.items) :
                    /\ pk.items[i].releases.kind = "array"
                    /\ Len(pk.items[i].releases.items) >= 2
           \/ /\ pk.kind = "map"
              /\ \E i \in 1..Len(pk.entries) :
                    /\ pk.entries[i].value.releases.kind = "map"
                    /\ Len(pk.entries[i].value.releases.entries) >= 2

\* C3: a call leaves the document it was given as it was, whether it succeeds
\* or fails, and a document it returns is another object with another
\* packages object.
C3_InputNeverMutated ==
    [][/\ Value(heap', cur) = Value(heap, cur)
       /\ last'.status = "ok" =>
            /\ cur' # cur
            /\ ~(IsPkRef(heap'[cur'].packages)
                 /\ heap'[cur'].packages = heap'[cur].packages)]_vars

\* C3 witness: a call has returned a document that differs from the one it
\* was given, which the caller still holds unchanged at the other reference
C3_Witness ==
    /\ last.status = "ok"
    /\ calls = 1
    /\ cur = "r2"
    /\ Value(heap, "r1") \in {Value(h, "r1") : h \in InitialHeaps}
    /\ Value(heap, "r2") # Value(heap, "r1")

(***************************************************************************)
(* resolver.ts: archive transfer                                           *)
(***************************************************************************)

\* The bound of `if (redirects > 5)`
MaxRedirects == 5

\* A bound that is never reached within the redirects a behaviour can see
tooManyRedirectsLate(redirects) == redirects > MaxRedirects + 3

\* redirects > 5
tooManyRedirects(redirects) == redirects > MaxRedirects

\* Status codes a server answers with (0: statusCode undefined)
Statuses == {0, 200, 204, 301, 302, 404, 500}

isRedirect(statusCode, location) == statusCode >= 300 /\ statusCode < 400 /\ location

isFailure(statusCode) == statusCode < 200 \/ statusCode >= 300

H_ab == <<"a", "b">>
H_cd == <<"c", "d">>

\* SHA-256 digests (hex, lower case) of the bodies a server sends
Digests == {H_ab, H_cd}

CK_bare     == <<"a", "b">>
CK_bareUp   == <<"A", "B">>
CK_sha      == <<"s", "h", "a", "2", "5", "6", ":", "a", "b">>
CK_shaUp    == <<"S", "H", "A", "2", "5", "6", ":", "A", "B">>
CK_md5      == <<"m", "d", "5", ":", "a", "b">>
CK_padded   == <<" ", "S", "h", "a", "2", "5", "6", ":", "c", "D", " ">>
CK_sha1     == <<"s", "h", "a", "1", ":", "c", "d">>

\* release.checksum of the resolved release; <<>> when the index gives none
Checksums == {<<>>, CK_bare, CK_bareUp, CK_sha, CK_shaUp, CK_md5, CK_padded, CK_sha1}

SHA256 == <<"s", "h", "a", "2", "5", "6">>

\* A verification that compares the checksum as it is written
verifyAsWritten(fileHash, checksum) ==
    LET normalized == trim(checksum)
        hasColon   == \E i \in 1..Len(normalized) : normalized[i] = ":"
        parts      == splitLimit(normalized, ":", 2)
        algorithm  == IF hasColon THEN parts[1] ELSE SHA256
        value      == IF hasColon THEN parts[2] ELSE normalized
    IN  IF algorithm # SHA256 THEN "unsupported-algorithm"
        ELSE IF fileHash # value THEN "checksum-mismatch"
        ELSE "ok"

\* verifyChecksum(filePath, checksum) on a file whose digest is fileHash:
\* "ok", or the error it throws
verifyChecksum(fileHash, checksum) ==
    LET normalized == toLowerCase(trim(checksum))
        hasColon   == \E i \in 1..Len(normalized) : normalized[i] = ":"
        parts      == splitLimit(normalized, ":", 2)
        algorithm  == IF hasColon THEN parts[1] ELSE SHA256
        value      == IF hasColon THEN parts[2] ELSE normalized
    IN  IF algorithm # SHA256 THEN "unsupported-algorithm"
        ELSE IF fileHash # value THEN "checksum-mismatch"
        ELSE "ok"

\* The transfers: requestText(url) of an index, and
\* downloadReleasePackage(release) with its downloadToFile(url, tempFile)
Transfers == {"requestText", "downloadToFile"}

InitTransfer ==
    /\ proj = IdleProj /\ trip = IdleTrip
    /\ art = IdleArt /\ man = IdleMan /\ rem = IdleRem /\ pack = IdlePack
    /\ dl \in [pc : {"request"}, op : Transfers, redirects : {0}, status : {0},
               fileExists : BOOLEAN, fileHash : {<<>>}, checksum : Checksums,
               outcome : {"pending"}, error : {"none"}, handed : {FALSE}]
    \* downloadToFile has created its write stream; requestText has no file
    \* and no checksum
    /\ dl.fileExists = (dl.op = "downloadToFile")
    /\ dl.op = "requestText" => dl.checksum = <<>>
    /\ cmp = IdleCmp /\ rsv = IdleRsv /\ inst = IdleInst /\ sub = IdleSub
    /\ heap = IdleIndex /\ cur = "r1" /\ last = IdleIndex /\ calls = 0

\* The response callback of client.get(url, ...) in requestText and in
\* downloadToFile
Response ==
    /\ dl.pc = "request"
    /\ \E statusCode \in Statuses, location \in BOOLEAN :
         IF isRedirect(statusCode, location)
         THEN IF tooManyRedirects(dl.redirects)
              THEN dl' = [dl EXCEPT !.pc = "done", !.status = statusCode,
                                    !.outcome = "rejected",
                                    !.error = "too-many-redirects",
                                    !.fileExists = FALSE]
              \* the recursive call: for downloadToFile the file is removed
              \* and a new write stream creates it again
              ELSE dl' = [dl EXCEPT !.status = statusCode,
                                    !.redirects = @ + 1]
         ELSE IF isFailure(statusCode)
         THEN dl' = [dl EXCEPT !.pc = "done", !.status = statusCode,
                               !.outcome = "rejected", !.error = "http-status",
                               !.fileExists = FALSE]
         ELSE dl' = [dl EXCEPT !.pc = "body", !.status = statusCode]
    /\ UNCHANGED <<proj, trip, art, man, rem, pack, cmp, rsv, heap, cur, last, calls, inst, sub>>

\* req.on('error', ...)
RequestError ==
    /\ dl.pc = "request"
    /\ dl' = [dl EXCEPT !.pc = "done", !.outcome = "rejected", !.error = "network",
                        !.fileExists = FALSE]
    /\ UNCHANGED <<proj, trip, art, man, rem, pack, cmp, rsv, heap, cur, last, calls, inst, sub>>

\* res.on('end', ...) of requestText, file.on('finish', ...) of downloadToFile:
\* the promise resolves; the file holds the body
BodyComplete ==
    /\ dl.pc = "body"
    /\ \/ /\ dl.op = "requestText"
          /\ dl' = [dl EXCEPT !.pc = "done", !.outcome = "resolved"]
       \/ /\ dl.op = "downloadToFile"
          /\ \E digest \in Digests :
               dl' = [dl EXCEPT !.pc = "verify", !.fileHash = digest]
    /\ UNCHANGED <<proj, trip, art, man, rem, pack, cmp, rsv, heap, cur, last, calls, inst, sub>>

\* file.on('error', ...)
FileError ==
    /\ dl.pc = "body"
    /\ dl.op = "downloadToFile"
    /\ dl' = [dl EXCEPT !.pc = "done", !.outcome = "rejected", !.error = "file",
                        !.fileExists = FALSE]
    /\ UNCHANGED <<proj, trip, art, man, rem, pack, cmp, rsv, heap, cur, last, calls, inst, sub>>

\* downloadReleasePackage behind `await downloadToFile(...)`, and the return
\* of resolvePackageInput, which hands the file to the installation
VerifyDownload ==
    /\ dl.pc = "verify"
    /\ LET v == IF dl.checksum # <<>> THEN verifyChecksum(dl.fileHash, dl.checksum)
                ELSE "ok"
       IN  IF v = "ok"
           THEN dl' = [dl EXCEPT !.pc = "done", !.outcome = "resolved",
                                 !.handed = TRUE]
           ELSE dl' = [dl EXCEPT !.pc = "done", !.outcome = "rejected", !.error = v]
    /\ UNCHANGED <<proj, trip, art, man, rem, pack, cmp, rsv, heap, cur, last, calls, inst, sub>>

NextTransfer == Response \/ RequestError \/ BodyComplete \/ FileError \/ VerifyDownload

SpecTransfer == InitTransfer /\ [][NextTransfer]_vars

\* Every request is answered by a response or an error event, and a
\* continuation that is ready runs
FairSpecTransfer == SpecTransfer /\ WF_vars(NextTransfer)

\* C4: a download with a checksum that its bytes do not hash to has failed,
\* its file is gone from the disk, and it was not handed to the installation.
C4_MismatchLeavesNoFile ==
    (dl.op = "downloadToFile" /\ dl.pc = "done" /\ dl.checksum # <<>>
        /\ dl.fileHash # <<>>
        /\ verifyChecksum(dl.fileHash, dl.checksum) = "checksum-mismatch") =>
            /\ dl.outcome = "rejected"
            /\ ~dl.fileExists
            /\ ~dl.handed

\* C8: a transfer follows at most MaxRedirects + 1 redirects and the next
\* redirect response fails it; it resolves only on a 2xx response; and it
\* terminates, whatever the server answers.
C8_RedirectsBounded ==
    /\ [](/\ dl.redirects <= MaxRedirects + 1
          /\ dl.outcome = "resolved" => (dl.status >= 200 /\ dl.status < 300)
          /\ (dl.pc = "done" /\ isFailure(dl.status)) => dl.outcome = "rejected")
    /\ <>(dl.pc = "done")

\* C8 witness: the redirect after the last one followed has failed the transfer
C8_Witness ==
    /\ dl.pc = "done"
    /\ dl.redirects = MaxRedirects + 1
    /\ dl.error = "too-many-redirects"

(***************************************************************************)
(* install.ts: installCommand                                              *)
(*                                                                         *)
(* The disk is the temporary extraction directory of the run and the       *)
(* project directory with its libs/<name> folders.  One CLI invocation is  *)
(* one action; a later invocation finds the disk as the earlier left it.   *)
(***************************************************************************)

\* metadata.name of the packages installed
LibNames == {"x", "y"}

MetadataFile == <<"", "picopak.json">>

CMakeFile(name) == <<"cmake", name>>

HeaderFile(n) == <<"include", n>>

\* CLI invocations in one behaviour
MaxInstalls == 2

\* Archives: with or without picopak.json, whose JSON parses or not, naming a
\* package, holding cmake/<n>.cmake for some names n, and one header
Archives ==
    [hasMetadata : BOOLEAN, jsonOk : BOOLEAN, name : LibNames,
     cmake : SUBSET LibNames, header : {"h1", "h2"}]

\* The files extract(packageFile, { dir: tempDir }) writes
ArchiveFiles(a) ==
    (IF a.hasMetadata THEN {MetadataFile} ELSE {})
        \cup {CMakeFile(n) : n \in a.cmake}
        \cup {HeaderFile(a.header)}

NoLibs == [n \in LibNames |-> [present |-> FALSE, files |-> {}]]

\* The project directories the runs start from
InitialProjects ==
    { [exists |-> FALSE, libsExists |-> FALSE, libs |-> NoLibs],
      [exists |-> TRUE, libsExists |-> FALSE, libs |-> NoLibs],
      [exists |-> TRUE, libsExists |-> TRUE, libs |-> NoLibs],
      [exists |-> TRUE, libsExists |-> TRUE,
       libs |-> [NoLibs EXCEPT !["x"] =
                    [present |-> TRUE,
                     files |-> {MetadataFile, CMakeFile("x"), HeaderFile("h0")}]]] }

InitInstall ==
    /\ proj = IdleProj /\ trip = IdleTrip
    /\ art = IdleArt /\ man = IdleMan /\ rem = IdleRem /\ pack = IdlePack
    /\ inst \in [runs : {0}, exit : {"none"}, tempExists : {FALSE},
                 name : LibNames, files : {{}}, project : InitialProjects,
                 before : InitialProjects]
    /\ inst.before = inst.project
    /\ cmp = IdleCmp /\ rsv = IdleRsv /\ dl = IdleDl /\ sub = IdleSub
    /\ heap = IdleIndex /\ cur = "r1" /\ last = IdleIndex /\ calls = 0

\* The `finally` block of installCommand: runs when the try block returns or
\* throws.  process.exit(1) ends the process at once, and the block never runs.
finallyRuns(exit) ==
    exit \in {"installed", "listed", "extract-threw", "json-threw"}

\* An installation that leaves the existing folder in place
keepExisting(libs, name) == libs

\* if (fs.existsSync(targetLibDir)) fs.rmSync(targetLibDir, { recursive: true,
\* force: true })
removeExisting(libs, name) ==
    IF libs[name].present THEN [libs EXCEPT ![name] = [present |-> FALSE, files |-> {}]]
    ELSE libs

\* copyDirectory(tempDir, targetLibDir): the folder is made when it is not
\* there, and every extracted file is copied into it over a file of its name
copyDirectory(libs, name, files) ==
    [libs EXCEPT ![name] = [present |-> TRUE, files |-> @.files \cup files]]

\* installCommand(packageFile, options): how the run ends and the disk it leaves
installCommand(project, fileExists, isPicopak, extractOk, partial, a, list) ==
    LET installedLibs == copyDirectory(removeExisting(project.libs, a.name), a.name,
                                       ArchiveFiles(a))
        installedProject == [project EXCEPT !.libsExists = TRUE, !.libs = installedLibs]
        exit ==
            IF ~fileExists THEN "no-file"
            ELSE IF ~isPicopak THEN "not-picopak"
            ELSE IF ~extractOk THEN "extract-threw"
            ELSE IF ~a.hasMetadata THEN "no-metadata"
            ELSE IF ~a.jsonOk THEN "json-threw"
            ELSE IF list THEN "listed"
            ELSE IF ~project.exists THEN "no-project"
            ELSE IF CMakeFile(a.name) \in installedLibs[a.name].files THEN "installed"
            ELSE "verification-failed"
        \* the temporary directory before the finally block: absent when the
        \* run ended before extraction, possibly absent when extract threw
        tempCreated ==
            IF exit \in {"no-file", "not-picopak"} THEN FALSE
            ELSE IF exit = "extract-threw" THEN partial
            ELSE TRUE
    IN  [exit       |-> exit,
         tempExists |-> tempCreated /\ ~finallyRuns(exit),
         project    |-> IF exit \in {"installed", "verification-failed"}
                        THEN installedProject ELSE project]

\* What a run finds and what extract does: no package file, a file of
\* another extension, an extraction that throws with or without a temporary
\* directory left, an extraction that succeeds
InstallRuns ==
    {[fileExists |-> FALSE, isPicopak |-> TRUE, extractOk |-> TRUE, partial |-> FALSE],
     [fileExists |-> TRUE, isPicopak |-> FALSE, extractOk |-> TRUE, partial |-> FALSE],
     [fileExists |-> TRUE, isPicopak |-> TRUE, extractOk |-> TRUE, partial |-> FALSE]}
    \cup [fileExists : {TRUE}, isPicopak : {TRUE}, extractOk : {FALSE}, partial : BOOLEAN]

\* One invocation `picopak install <packageFile> [--list]`
InstallCommand ==
    /\ inst.runs < MaxInstalls
    /\ \E run \in InstallRuns, a \in Archives, list \in BOOLEAN :
         LET r == installCommand(inst.project, run.fileExists, run.isPicopak,
                                 run.extractOk, run.partial, a, list)
         IN  inst' = [runs |-> inst.runs + 1, exit |-> r.exit,
                      tempExists |-> r.tempExists, name |-> a.name,
                      files |-> ArchiveFiles(a),
                      project |-> r.project, before |-> inst.project]
    /\ UNCHANGED <<proj, trip, art, man, rem, pack, cmp, rsv, heap, cur, last, calls, dl, sub>>

NextInstall == InstallCommand

SpecInstall == InitInstall /\ [][NextInstall]_vars

\* C5: when a run of installCommand has ended, for whatever reason, its
\* temporary extraction directory does not exist.
C5_TempDirAlwaysRemoved ==
    inst.exit # "none" => ~inst.tempExists

\* C6: when a run has ended because the installation verification failed, no
\* installation of the package is left under libs/<name> and the project is
\* as it was before the run.
C6_FailedVerificationLeavesNothing ==
    inst.exit = "verification-failed" =>
        /\ ~inst.project.libs[inst.name].present
        /\ inst.project = inst.before

(***************************************************************************)
(* submit.ts: submitCommand                                                *)
(*                                                                         *)
(* The disk is the bundle directory <name>-<version>-submit of the run,    *)
(* with the files in it, and the index file given by --index-file, whose   *)
(* parsed content is the document at r1.                                   *)
(***************************************************************************)

BundleFiles == {"index-entry.json", "release-data.json", "index.updated.json",
                "index-update.patch", "submission-instructions.txt"}

NoBundle == [exists |-> FALSE, files |-> [f \in BundleFiles |-> "absent"]]

\* The bundle directory a previous run for the same package and version left
OldBundle ==
    [exists |-> TRUE,
     files |-> [f \in BundleFiles |->
                  IF f \in {"index-entry.json", "release-data.json",
                            "submission-instructions.txt"}
                  THEN "old" ELSE "absent"]]

\* fs.writeFileSync of the named files in the bundle directory
writeFiles(bundle, names) ==
    [bundle EXCEPT !.files = [f \in BundleFiles |->
                                IF f \in names THEN "written" ELSE @[f]]]

\* How the steps before the bundle is written end: resolveSubmitInputs,
\* parsePackMetadata, resolveArtifactPath
EarlySteps == {"ok", "input-missing", "bad-input", "metadata-missing",
               "bad-metadata", "artifact-missing"}

\* The --index-file option: not given, naming no file, naming a file that is
\* no JSON, naming an index file
IndexFileOptions == {"none", "missing", "unparsable", "present"}

\* validateArtifact(artifactPath, metadata): "ok" or the fail(...) it ends in
validateArtifact(extOk, statSize, fileHash, sizeBytes, sha256) ==
    IF ~extOk THEN "artifact-extension"
    ELSE IF statSize # sizeBytes THEN "artifact-size"
    ELSE IF fileHash # toLowerCase(sha256) THEN "artifact-checksum"
    ELSE "ok"

\* submitCommand(inputPath, options): how the run ends, the bundle directory
\* it leaves, and the heap behind the call of applyReleaseToIndex
submitCommand(h, bundle, early, artifact, pkg, version, url, indexFile, dryRun, gitDiff) ==
    LET payload == buildReleasePayload(version, url)
        made    == writeFiles([bundle EXCEPT !.exists = TRUE],
                              {"index-entry.json", "release-data.json"})
        applied == applyReleaseToIndex(h, "r1", pkg, version, payload)
    IN  IF early # "ok" THEN [exit |-> early, bundle |-> bundle, heap |-> h]
        ELSE IF artifact # "ok" THEN [exit |-> artifact, bundle |-> bundle, heap |-> h]
        \* buildOptionalIndexUpdate
        ELSE IF indexFile = "none"
        THEN [exit |-> "ok", heap |-> h,
              bundle |-> writeFiles(made, {"submission-instructions.txt"})]
        ELSE IF indexFile = "missing"
        THEN [exit |-> "index-missing", bundle |-> made, heap |-> h]
        ELSE IF indexFile = "unparsable"
        THEN [exit |-> "index-unparsable", bundle |-> made, heap |-> h]
        ELSE IF applied.status # "ok"
        THEN [exit |-> applied.status, bundle |-> made, heap |-> applied.heap]
        ELSE IF dryRun
        THEN [exit |-> "ok", heap |-> applied.heap,
              bundle |-> writeFiles(made, {"submission-instructions.txt"})]
        ELSE [exit |-> "ok", heap |-> applied.heap,
              bundle |-> writeFiles(made,
                            {"index.updated.json", "submission-instructions.txt"}
                            \cup (IF gitDiff THEN {"index-update.patch"} ELSE {}))]

InitSubmit ==
    /\ proj = IdleProj /\ trip = IdleTrip
    /\ art = IdleArt /\ man = IdleMan /\ rem = IdleRem /\ pack = IdlePack
    /\ heap \in InitialHeaps
    /\ cur = "r1"
    /\ last = NoCall
    /\ calls = 0
    /\ sub \in [exit : {"none"}, bundle : {NoBundle, OldBundle},
                before : {NoBundle, OldBundle}, indexFile : {FreeCell}]
    /\ sub.before = sub.bundle
    /\ cmp = IdleCmp /\ rsv = IdleRsv /\ dl = IdleDl /\ inst = IdleInst

\* One invocation `picopak submit <input> [--index-file f] [--dry-run]`.
\* sub.indexFile is the content of the index file when the run has ended: the
\* run never writes that file.
SubmitCommand ==
    /\ sub.exit = "none"
    /\ \E early \in EarlySteps, extOk \in BOOLEAN, statSize \in {1, 2},
          fileHash \in Digests, sha256 \in {CK_bare, CK_bareUp},
          pkg \in PackageNames, version \in IndexVersions, url \in ArtifactUrls,
          indexFile \in IndexFileOptions, dryRun \in BOOLEAN, gitDiff \in BOOLEAN :
         LET r == submitCommand(heap, sub.bundle, early,
                                validateArtifact(extOk, statSize, fileHash, 1, sha256),
                                pkg, version, url, indexFile, dryRun, gitDiff)
         IN  /\ heap' = r.heap
             /\ sub' = [sub EXCEPT !.exit = r.exit, !.bundle = r.bundle,
                                   !.indexFile = Value(heap, "r1")[2]]
             /\ last' = [pkg |-> pkg, version |-> version, status |-> r.exit,
                         repeat |-> FALSE]
    /\ calls' = calls + 1
    /\ UNCHANGED <<proj, trip, art, man, rem, pack, cur, cmp, rsv, dl, inst>>

NextSubmit == SubmitCommand

SpecSubmit == InitSubmit /\ [][NextSubmit]_vars

\* C7: when a run of submit has failed, the bundle directory and its files
\* are as they were before the run (nothing created, nothing written), and
\* the index file holds what it held.
C7_FailedSubmitLeavesDiskUnchanged ==
    (sub.exit \notin {"none", "ok"}) =>
        /\ sub.bundle = sub.before
        /\ sub.indexFile = Value(heap, "r1")[2]

(***************************************************************************)
(* resolver.ts: selectArtifact                                             *)
(*                                                                         *)
(* A URL is a tuple naming the place of the release it was written in; the *)
(* empty tuple is the empty string.  A JSON value is a record with a kind. *)
(***************************************************************************)

P_rp2040 == <<"r", "p", "2", "0", "4", "0">>
P_rp2350 == <<"r", "p", "2", "3", "5", "0">>
P_RP2350_sp == <<" ", "R", "P", "2", "3", "5", "0">>
P_other == <<"h", "m">>

\* type Platform = 'rp2040' | 'rp2350'
Platforms == {P_rp2040, P_rp2350}

\* normalizePlatform(value): the platform, or <<>> for undefined
normalizePlatform(value) ==
    IF value = <<>> THEN <<>>
    ELSE LET normalized == toLowerCase(trim(value))
         IN  IF normalized = P_rp2040 \/ normalized = P_rp2350 THEN normalized
             ELSE <<>>

Undefined == [kind |-> "undefined"]

StringValue(u) == [kind |-> "string", value |-> u]

NumberValue == [kind |-> "number"]

ObjectValue(platform, url, downloadUrl, asset, file, checksum, sha256, sha_256) ==
    [kind |-> "object", platform |-> platform, url |-> url,
     downloadUrl |-> downloadUrl, asset |-> asset, file |-> file,
     checksum |-> checksum, sha256 |-> sha256, sha_256 |-> sha_256]

\* An IndexArtifact
Artifact(url, checksum, sha256) ==
    [kind |-> "artifact", url |-> url, checksum |-> checksum, sha256 |-> sha256]

\* a || b on strings
OrElse(a, b) == IF a # <<>> THEN a ELSE b

\* normalizeArtifact(value)
normalizeArtifact(value) ==
    IF value.kind = "undefined" THEN Undefined
    ELSE IF value.kind = "string"
    THEN IF value.value = <<>> THEN Undefined
         ELSE Artifact(value.value, <<>>, <<>>)
    ELSE IF value.kind = "object"
    THEN LET url == OrElse(value.url, OrElse(value.downloadUrl,
                        OrElse(value.asset, value.file)))
         IN  IF url = <<>> THEN Undefined
             ELSE Artifact(url, value.checksum, OrElse(value.sha256, value.sha_256))
    ELSE Undefined

\* artifact?.url is truthy
hasUrl(artifact) == artifact.kind = "artifact" /\ artifact.url # <<>>

\* map[platform] of a Record<string, unknown>
lookup(map, platform) ==
    IF platform \in DOMAIN map.entries THEN map.entries[platform] ELSE Undefined

\* The first of the maps whose entry for the platform gives a URL
RECURSIVE firstInMaps(_, _)
firstInMaps(maps, platform) ==
    IF maps = <<>> THEN Undefined
    ELSE IF Head(maps).kind = "undefined" THEN firstInMaps(Tail(maps), platform)
    ELSE LET artifact == normalizeArtifact(lookup(Head(maps), platform))
         IN  IF hasUrl(artifact) THEN artifact
             ELSE firstInMaps(Tail(maps), platform)

\* The first asset of the platform that gives a URL
RECURSIVE firstInAssets(_, _)
firstInAssets(assets, platform) ==
    IF assets = <<>> THEN Undefined
    ELSE LET value == Head(assets)
             artifact == normalizeArtifact(value)
         IN  IF normalizePlatform(value.platform) = platform /\ hasUrl(artifact)
             THEN artifact
             ELSE firstInAssets(Tail(assets), platform)

\* Selection that looks at the bare top-level url before anything else
bareUrlFirst(release, platform) ==
    IF release.url # <<>>
    THEN Artifact(release.url, release.checksum, release.sha256)
    ELSE Undefined

\* selectArtifact(release, platform): an IndexArtifact, or Undefined
selectArtifact(release, platform) ==
    LET maps == <<release.artifacts, release.platforms, release.files, release.downloads>>
        fromMaps == firstInMaps(maps, platform)
        arrayAssets == IF release.assets.kind = "array" THEN release.assets.items ELSE <<>>
        fromAssets == firstInAssets(arrayAssets, platform)
        artifact == normalizeArtifact(release.artifact)
    IN  IF hasUrl(fromMaps) THEN fromMaps
        ELSE IF release.platform # <<>> /\ normalizePlatform(release.platform) = platform
                /\ release.url # <<>>
        THEN Artifact(release.url, release.checksum, release.sha256)
        ELSE IF hasUrl(fromAssets) THEN fromAssets
        ELSE IF hasUrl(artifact) THEN artifact
        ELSE IF release.url # <<>>
        THEN Artifact(release.url, release.checksum, release.sha256)
        ELSE Undefined

\* A Record<string, unknown> keyed by platform
MapValue(entries) == [kind |-> "map", entries |-> entries]

NoUrlObject == ObjectValue(<<>>, <<>>, <<>>, <<>>, <<>>, <<>>, <<>>, <<>>)

\* release.artifacts, release.platforms, release.files, release.downloads:
\* absent, or a map whose entries are strings, objects with or without a URL,
\* or no artifact at all
MapPool(slot) ==
    { Undefined,
      MapValue(P_rp2040 :> StringValue(<<slot, "40">>)
            @@ P_rp2350 :> ObjectValue(<<>>, <<slot, "50">>, <<>>, <<>>, <<>>,
                                       CK_bare, <<>>, <<>>)),
      MapValue(P_rp2040 :> NoUrlObject
            @@ P_rp2350 :> ObjectValue(<<>>, <<>>, <<slot, "dl">>, <<>>, <<>>,
                                       <<>>, <<>>, CK_bare)),
      MapValue(P_rp2350 :> NumberValue) }

\* release.assets: absent, or an array of assets tagged by platform
AssetsPool ==
    { Undefined,
      [kind |-> "array", items |-> <<>>],
      [kind |-> "array",
       items |-> <<ObjectValue(P_rp2040, <<"assets", "1">>, <<>>, <<>>, <<>>,
                               <<>>, <<>>, <<>>)>>],
      [kind |-> "array",
       items |-> <<ObjectValue(P_rp2350, <<>>, <<>>, <<>>, <<>>, <<>>, <<>>, <<>>),
                   ObjectValue(P_RP2350_sp, <<>>, <<>>, <<>>, <<"assets", "2">>,
                               <<>>, <<>>, <<>>),
                   ObjectValue(P_rp2040, <<>>, <<>>, <<"assets", "3">>, <<>>,
                               <<>>, <<>>, <<>>)>>] }

\* release.artifact: absent, a URL string, an object without a URL
ArtifactPool == {Undefined, StringValue(<<"artifact", "s">>), NoUrlObject}

TopUrl == <<"url", "top">>

\* The releases selectArtifact is called on
ArtifactReleases ==
    [artifacts : MapPool("artifacts"), platforms : MapPool("platforms"),
     files : MapPool("files"), downloads : MapPool("downloads"),
     platform : {<<>>, P_rp2040, P_RP2350_sp, P_other},
     url : {<<>>, TopUrl}, checksum : {CK_bare}, sha256 : {<<>>},
     assets : AssetsPool, artifact : ArtifactPool]

InitArtifact ==
    /\ proj = IdleProj /\ trip = IdleTrip
    /\ art \in [pc : {"call"}, release : ArtifactReleases, platform : Platforms,
                result : {Undefined}]
    /\ cmp = IdleCmp /\ rsv = IdleRsv /\ dl = IdleDl /\ inst = IdleInst
    /\ sub = IdleSub /\ man = IdleMan /\ rem = IdleRem /\ pack = IdlePack
    /\ heap = IdleIndex /\ cur = "r1" /\ last = IdleIndex /\ calls = 0

\* const artifact = selectArtifact(selectedRelease, options.platform)
SelectArtifact ==
    /\ art.pc = "call"
    /\ art' = [art EXCEPT !.pc = "done",
                          !.result = selectArtifact(art.release, art.platform)]
    /\ UNCHANGED <<proj, trip, cmp, rsv, heap, cur, last, calls, dl, inst, sub, man, rem, pack>>

NextArtifact == SelectArtifact

SpecArtifact == InitArtifact /\ [][NextArtifact]_vars

\* The URL a candidate value yields; <<>> when it yields none
UrlOf(value) ==
    IF value.kind = "string" THEN value.value
    ELSE IF value.kind = "object"
    THEN (IF value.url # <<>> THEN value.url
          ELSE IF value.downloadUrl # <<>> THEN value.downloadUrl
          ELSE IF value.asset # <<>> THEN value.asset
          ELSE value.file)
    ELSE <<>>

MapNames == <<"artifacts", "platforms", "files", "downloads">>

\* The URL of the per-platform map entry of the release, map by map
MapUrl(release, name, platform) ==
    LET map == release[name]
    IN  IF map.kind = "map" /\ platform \in DOMAIN map.entries
        THEN UrlOf(map.entries[platform]) ELSE <<>>

\* The URLs of the candidate forms in their priority order
CandidateUrls(release, platform) ==
    [i \in 1..4 |-> MapUrl(release, MapNames[i], platform)]
    \o <<IF toLowerCase(trim(release.platform)) = platform THEN release.url ELSE <<>>>>
    \o (IF release.assets.kind = "array"
        THEN [i \in 1..Len(release.assets.items) |->
                IF toLowerCase(trim(release.assets.items[i].platform)) = platform
                THEN UrlOf(release.assets.items[i]) ELSE <<>>]
        ELSE <<>>)
    \o <<UrlOf(release.artifact), release.url>>

\* The first non-empty URL of a list; <<>> when there is none
FirstUrl(urls) ==
    IF \E i \in 1..Len(urls) : urls[i] # <<>>
    THEN urls[CHOOSE i \in 1..Len(urls) :
                /\ urls[i] # <<>>
                /\ \A j \in 1..(i - 1) : urls[j] = <<>>]
    ELSE <<>>

\* C11: the artifact selected for a release and a platform is the first of
\* the candidate forms, in their priority order, that yields a non-empty URL
\* (none when no form yields one); a release with a per-platform map entry
\* and a bare top-level url resolves to the map entry.
C11_FirstCandidateWins ==
    art.pc = "done" =>
        LET first == FirstUrl(CandidateUrls(art.release, art.platform))
        IN  /\ (first = <<>>) = (art.result = Undefined)
            /\ first # <<>> => art.result.url = first
            /\ (art.release.url # <<>>
                /\ \E i \in 1..4 :
                     MapUrl(art.release, MapNames[i], art.platform) # <<>>)
               => art.result.url[1] \in {"artifacts", "platforms", "files", "downloads"}

\* C11 witness: a release with a map entry under files and a bare top-level
\* url for the platform has resolved to the map entry
C11_Witness ==
    /\ art.pc = "done"
    /\ art.release.url # <<>>
    /\ art.release.artifacts = Undefined
    /\ art.result.kind = "artifact"
    /\ art.result.url[1] = "files"

(***************************************************************************)
(* Manifest validation: validateManifestV2                                 *)
(*                                                                         *)
(* The parsed document is a record of JSON values; an error or warning is  *)
(* a record naming the rule of the message and the platform it is about.   *)
(***************************************************************************)

BooleanValue(b) == [kind |-> "boolean", value |-> b]

\* typeof value === 'string' && value.trim().length > 0
isNonEmptyString(value) == value.kind = "string" /\ trim(value.value) # <<>>

\* asStringArray(value): the trimmed items, or Undefined
asStringArray(value) ==
    IF value.kind # "array" THEN Undefined
    ELSE IF \E i \in 1..Len(value.items) : ~isNonEmptyString(value.items[i])
    THEN Undefined
    ELSE [kind |-> "array",
          items |-> [i \in 1..Len(value.items) |-> trim(value.items[i].value)]]

\* value === 'rp2040' || value === 'rp2350'
isPlatform(value) == value = P_rp2040 \/ value = P_rp2350

isBoolean(value) == value.kind = "boolean"

\* Array.from(new Set(items.filter(isPlatform))): the recognized items, each
\* once, in the order of their first occurrence
RECURSIVE uniquePlatforms(_, _)
uniquePlatforms(items, acc) ==
    IF items = <<>> THEN acc
    ELSE IF isPlatform(Head(items)) /\ ~(\E i \in 1..Len(acc) : acc[i] = Head(items))
    THEN uniquePlatforms(Tail(items), Append(acc, Head(items)))
    ELSE uniquePlatforms(Tail(items), acc)

HexDigits == {"0", "1", "2", "3", "4", "5", "6", "7", "8", "9",
              "a", "b", "c", "d", "e", "f", "A", "B", "C", "D", "E", "F"}

HexLength == 64

\* /^[a-fA-F0-9]{64}$/.test(s)
isSha256Hex(s) == Len(s) = HexLength /\ \A i \in 1..Len(s) : s[i] \in HexDigits

Message(rule, platform) == [rule |-> rule, platform |-> platform]

\* variantsNode?.[platform]
variantOf(variantsNode, platform) ==
    IF variantsNode.kind = "object" /\ platform \in DOMAIN variantsNode.entries
    THEN variantsNode.entries[platform] ELSE Undefined

\* The errors the loop over normalizedPlatforms pushes for one platform
variantErrors(variantsNode, platform) ==
    LET variant == variantOf(variantsNode, platform)
    IN  IF variant.kind # "object"
        THEN <<Message("variants.platform must be an object", platform)>>
        ELSE (IF variant.platform # StringValue(platform)
              THEN <<Message("variants.platform.platform must be the platform", platform)>>
              ELSE <<>>)
             \o (IF variant.binary.kind = "undefined" THEN <<>>
                 ELSE IF variant.binary.kind # "object"
                 THEN <<Message("variants.platform.binary must be an object", platform)>>
                 ELSE IF ~isNonEmptyString(variant.binary.path)
                         \/ ~isNonEmptyString(variant.binary.sha256)
                 THEN <<Message("variants.platform.binary.path and sha256 must be non-empty strings", platform)>>
                 ELSE IF ~isSha256Hex(trim(variant.binary.sha256.value))
                 THEN <<Message("variants.platform.binary.sha256 must be a 64-character hex SHA256", platform)>>
                 ELSE <<>>)

\* validatedVariants[platform]?.binary: the validated binary, or Undefined
validatedBinary(variantsNode, platform) ==
    LET variant == variantOf(variantsNode, platform)
    IN  IF variant.kind = "object" /\ variant.binary.kind = "object"
           /\ isNonEmptyString(variant.binary.path)
           /\ isNonEmptyString(variant.binary.sha256)
           /\ isSha256Hex(trim(variant.binary.sha256.value))
        THEN [kind |-> "object", path |-> trim(variant.binary.path.value),
              sha256 |-> toLowerCase(trim(variant.binary.sha256.value))]
        ELSE Undefined

\* A binary-only tier that never asks for the binary of a platform
binaryNeverRequired(variantsNode, platform) == <<>>

\* The error of the binary-only tier for a platform without validated binary
binaryRequired(variantsNode, platform) ==
    IF validatedBinary(variantsNode, platform).kind = "undefined"
    THEN <<Message("variants.platform.binary is required for binary-only", platform)>>
    ELSE <<>>

\* for (const platform of normalizedPlatforms): the errors of the variants
RECURSIVE allVariantErrors(_, _)
allVariantErrors(platforms, variantsNode) ==
    IF platforms = <<>> THEN <<>>
    ELSE variantErrors(variantsNode, Head(platforms))
         \o allVariantErrors(Tail(platforms), variantsNode)

\* for (const platform of normalizedPlatforms): the binaries binary-only requires
RECURSIVE allBinaryRequired(_, _)
allBinaryRequired(platforms, variantsNode) ==
    IF platforms = <<>> THEN <<>>
    ELSE binaryRequired(variantsNode, Head(platforms))
         \o allBinaryRequired(Tail(platforms), variantsNode)

\* errors.push(message) when the condition holds
pushIf(condition, rule) == IF condition THEN <<Message(rule, <<>>)>> ELSE <<>>

\* validateManifestV2(raw): the errors it throws, or the warnings and, of the
\* typed manifest, the tier, the platforms and the validated binaries
validateManifestV2(raw) ==
    LET platforms == asStringArray(raw.platforms)
        tierRaw == raw.distribution_tier
        distributionTier ==
            IF tierRaw = StringValue("source") \/ tierRaw = StringValue("source-preferred")
            THEN "source"
            ELSE IF tierRaw = StringValue("binary-only") THEN "binary-only"
            ELSE "undefined"
        normalizedPlatforms ==
            IF platforms.kind = "array" THEN uniquePlatforms(platforms.items, <<>>)
            ELSE <<>>
        hasProvenance ==
            /\ raw.provenance.kind = "object"
            /\ isNonEmptyString(raw.provenance.source_repository)
            /\ isNonEmptyString(raw.provenance.source_revision)
        hasToolchain ==
            /\ raw.toolchain.kind = "object"
            /\ isNonEmptyString(raw.toolchain.compiler)
            /\ isNonEmptyString(raw.toolchain.version)
        hasAbi ==
            /\ raw.abi.kind = "object"
            /\ isNonEmptyString(raw.abi.optimization_flags)
            /\ isNonEmptyString(raw.abi.float_abi)
            /\ isBoolean(raw.abi.cxx_exceptions)
            /\ isBoolean(raw.abi.cxx_rtti)
        errors ==
            pushIf(~isNonEmptyString(raw.name), "name must be a non-empty string")
            \o pushIf(~isNonEmptyString(raw.version), "version must be a non-empty string")
            \o pushIf(~isNonEmptyString(raw.description), "description must be a non-empty string")
            \o pushIf(~isNonEmptyString(raw.license), "license must be a non-empty string")
            \o pushIf(raw.package_format # StringValue("2.0"), "package_format must be 2.0")
            \o pushIf(distributionTier = "undefined", "distribution_tier must be source or binary-only")
            \o pushIf(platforms.kind # "array" \/ platforms.items = <<>>,
                      "platforms must be a non-empty string array")
            \o pushIf(raw.variants.kind # "object", "variants must be an object")
            \o pushIf(platforms.kind = "array"
                        /\ Len(normalizedPlatforms) # Len(platforms.items),
                      "platforms may only contain rp2040 and rp2350")
            \o allVariantErrors(normalizedPlatforms, raw.variants)
            \o (IF distributionTier = "binary-only"
                THEN pushIf(~hasProvenance, "provenance is required for binary-only")
                     \o (IF ~hasToolchain
                         THEN pushIf(TRUE, "toolchain.compiler and toolchain.version are required for binary-only")
                         ELSE pushIf(~isNonEmptyString(raw.toolchain.pico_sdk_version),
                                     "toolchain.pico_sdk_version is required for binary-only"))
                     \o pushIf(~hasAbi, "abi is required for binary-only")
                     \o allBinaryRequired(normalizedPlatforms, raw.variants)
                ELSE <<>>)
        warnings ==
            IF distributionTier = "source"
            THEN pushIf(~hasProvenance, "Recommended for source tier: provenance")
                 \o pushIf(~hasToolchain, "Recommended for source tier: toolchain")
                 \o pushIf(~hasAbi, "Recommended for source tier: abi")
            ELSE <<>>
    IN  IF errors # <<>>
        THEN [ok |-> FALSE, errors |-> errors, warnings |-> <<>>,
              tier |-> distributionTier, platforms |-> <<>>, binaries |-> <<>>]
        ELSE [ok |-> TRUE, errors |-> <<>>, warnings |-> warnings,
              tier |-> distributionTier, platforms |-> normalizedPlatforms,
              binaries |-> [i \in 1..Len(normalizedPlatforms) |->
                              validatedBinary(raw.variants, normalizedPlatforms[i])]]

Text == StringValue(<<"a", "b">>)

Blank == StringValue(<<" ">>)

\* A SHA-256 in hex, and a string that is none
Sha(c) == StringValue([i \in 1..HexLength |-> c])

BadSha == StringValue(<<"a", "b">>)

Binary(path, sha256) == [kind |-> "object", path |-> path, sha256 |-> sha256]

Variant(platform, binary) ==
    [kind |-> "object", platform |-> StringValue(platform), binary |-> binary]

ArrayOfStrings(items) ==
    [kind |-> "array", items |-> [i \in 1..Len(items) |-> StringValue(items[i])]]

\* A manifest with every field present and well-formed
FullManifest(tier, platforms) ==
    [name |-> Text, version |-> Text, description |-> Text, license |-> Text,
     package_format |-> StringValue("2.0"),
     distribution_tier |-> StringValue(tier),
     platforms |-> ArrayOfStrings(platforms),
     variants |-> [kind |-> "object",
                   entries |-> [p \in {platforms[i] : i \in 1..Len(platforms)} |->
                                  Variant(p, Binary(Text, Sha("A")))]],
     provenance |-> [kind |-> "object", source_repository |-> Text,
                     source_revision |-> Text],
     toolchain |-> [kind |-> "object", compiler |-> Text, version |-> Text,
                    pico_sdk_version |-> Text],
     abi |-> [kind |-> "object", optimization_flags |-> Text, float_abi |-> Text,
              cxx_exceptions |-> BooleanValue(FALSE), cxx_rtti |-> BooleanValue(TRUE)]]

\* The manifests a developer starts from
InitialManifests ==
    { FullManifest(tier, platforms) :
        tier \in {"source", "source-preferred", "binary-only"},
        platforms \in {<<P_rp2040>>, <<P_rp2350, P_rp2040>>} }

\* Edits of picopak.json between two validations
MaxEdits == 2

\* The removals of a field
Removals ==
    { [op |-> op, platform |-> <<>>] :
        op \in {"remove provenance", "remove toolchain.pico_sdk_version", "remove abi"} }
    \cup { [op |-> "remove binary", platform |-> p] : p \in Platforms }

Edits ==
    Removals
    \cup { [op |-> op, platform |-> <<>>] :
             op \in {"blank name", "drop version", "blank description", "drop license",
                     "package_format 1.0", "tier other", "tier source", "tier binary-only",
                     "platforms none", "platforms empty", "platforms repeat",
                     "platforms unknown", "platforms number", "drop variants",
                     "blank provenance.source_revision", "remove toolchain",
                     "abi.cxx_rtti number"} }
    \cup { [op |-> op, platform |-> p] :
             op \in {"binary number", "blank binary.path", "malformed binary.sha256",
                     "drop variant", "variant.platform other"},
             p \in Platforms }

hasVariant(doc, p) ==
    /\ doc.variants.kind = "object"
    /\ p \in DOMAIN doc.variants.entries
    /\ doc.variants.entries[p].kind = "object"

hasBinary(doc, p) == hasVariant(doc, p) /\ doc.variants.entries[p].binary.kind = "object"

\* The edit changes a field the document holds
canEdit(doc, e) ==
    CASE e.op = "remove provenance" -> doc.provenance.kind = "object"
      [] e.op = "blank provenance.source_revision" -> doc.provenance.kind = "object"
      [] e.op = "remove toolchain" -> doc.toolchain.kind = "object"
      [] e.op = "remove toolchain.pico_sdk_version" ->
            doc.toolchain.kind = "object" /\ doc.toolchain.pico_sdk_version.kind = "string"
      [] e.op \in {"remove abi", "abi.cxx_rtti number"} -> doc.abi.kind = "object"
      [] e.op \in {"platforms repeat", "platforms unknown", "platforms number"} ->
            doc.platforms.kind = "array" /\ doc.platforms.items # <<>>
      [] e.op \in {"remove binary", "blank binary.path", "malformed binary.sha256"} ->
            hasBinary(doc, e.platform)
      [] e.op \in {"binary number", "drop variant", "variant.platform other"} ->
            hasVariant(doc, e.platform)
      [] OTHER -> TRUE

setVariant(doc, p, variant) ==
    [doc EXCEPT !.variants.entries[p] = variant]

applyEdit(doc, e) ==
    LET p == e.platform
    IN  CASE e.op = "blank name" -> [doc EXCEPT !.name = Blank]
          [] e.op = "drop version" -> [doc EXCEPT !.version = Undefined]
          [] e.op = "blank description" -> [doc EXCEPT !.description = Blank]
          [] e.op = "drop license" -> [doc EXCEPT !.license = Undefined]
          [] e.op = "package_format 1.0" -> [doc EXCEPT !.package_format = StringValue("1.0")]
          [] e.op = "tier other" -> [doc EXCEPT !.distribution_tier = StringValue("binary")]
          [] e.op = "tier source" -> [doc EXCEPT !.distribution_tier = StringValue("source")]
          [] e.op = "tier binary-only" ->
                [doc EXCEPT !.distribution_tier = StringValue("binary-only")]
          [] e.op = "platforms none" -> [doc EXCEPT !.platforms = Undefined]
          [] e.op = "platforms empty" -> [doc EXCEPT !.platforms = ArrayOfStrings(<<>>)]
          [] e.op = "platforms repeat" ->
                [doc EXCEPT !.platforms.items = Append(@, Head(@))]
          [] e.op = "platforms unknown" ->
                [doc EXCEPT !.platforms.items = Append(@, StringValue(P_other))]
          [] e.op = "platforms number" ->
                [doc EXCEPT !.platforms.items = Append(@, NumberValue)]
          [] e.op = "drop variants" -> [doc EXCEPT !.variants = Undefined]
          [] e.op = "remove provenance" -> [doc EXCEPT !.provenance = Undefined]
          [] e.op = "blank provenance.source_revision" ->
                [doc EXCEPT !.provenance.source_revision = Blank]
          [] e.op = "remove toolchain" -> [doc EXCEPT !.toolchain = Undefined]
          [] e.op = "remove toolchain.pico_sdk_version" ->
                [doc EXCEPT !.toolchain.pico_sdk_version = Undefined]
          [] e.op = "remove abi" -> [doc EXCEPT !.abi = Undefined]
          [] e.op = "abi.cxx_rtti number" -> [doc EXCEPT !.abi.cxx_rtti = NumberValue]
          [] e.op = "remove binary" ->
                setVariant(doc, p, [doc.variants.entries[p] EXCEPT !.binary = Undefined])
          [] e.op = "binary number" ->
                setVariant(doc, p, [doc.variants.entries[p] EXCEPT !.binary = NumberValue])
          [] e.op = "blank binary.path" ->
                setVariant(doc, p, [doc.variants.entries[p] EXCEPT !.binary.path = Blank])
          [] e.op = "malformed binary.sha256" ->
                setVariant(doc, p, [doc.variants.entries[p] EXCEPT !.binary.sha256 = BadSha])
          [] e.op = "drop variant" -> setVariant(doc, p, Undefined)
          [] e.op = "variant.platform other" ->
                setVariant(doc, p, [doc.variants.entries[p] EXCEPT
                                      !.platform = StringValue(P_other)])

NoResult == [ok |-> FALSE, errors |-> <<>>, warnings |-> <<>>, tier |-> "none",
             platforms |-> <<>>, binaries |-> <<>>]

NoEdit == [op |-> "none", platform |-> <<>>]

InitManifest ==
    /\ proj = IdleProj /\ trip = IdleTrip
    /\ man \in [pc : {"call"}, doc : InitialManifests, edits : {0},
                lastEdit : {NoEdit}, base : {NoResult}, result : {NoResult}]
    /\ cmp = IdleCmp /\ rsv = IdleRsv /\ dl = IdleDl /\ inst = IdleInst
    /\ sub = IdleSub /\ art = IdleArt /\ rem = IdleRem /\ pack = IdlePack
    /\ heap = IdleIndex /\ cur = "r1" /\ last = IdleIndex /\ calls = 0

\* The developer edits picopak.json.  base is the outcome of the validation
\* of the document before the edit, when it was validated.
EditManifest ==
    /\ man.edits < MaxEdits
    /\ \E e \in Edits :
         /\ canEdit(man.doc, e)
         /\ man' = [pc |-> "call", doc |-> applyEdit(man.doc, e),
                    edits |-> man.edits + 1, lastEdit |-> e,
                    base |-> IF man.pc = "done" THEN man.result ELSE NoResult,
                    result |-> NoResult]
    /\ UNCHANGED <<proj, trip, cmp, rsv, heap, cur, last, calls, dl, inst, sub, art, rem, pack>>

\* validateManifestV2(JSON.parse(...))
ValidateManifest ==
    /\ man.pc = "call"
    /\ man' = [man EXCEPT !.pc = "done", !.result = validateManifestV2(man.doc)]
    /\ UNCHANGED <<proj, trip, cmp, rsv, heap, cur, last, calls, dl, inst, sub, art, rem, pack>>

NextManifest == EditManifest \/ ValidateManifest

SpecManifest == InitManifest /\ [][NextManifest]_vars

\* The message names the field the edit removed
NamesRemoved(message, e) ==
    CASE e.op = "remove provenance" ->
            message.rule = "provenance is required for binary-only"
      [] e.op = "remove toolchain.pico_sdk_version" ->
            message.rule = "toolchain.pico_sdk_version is required for binary-only"
      [] e.op = "remove abi" -> message.rule = "abi is required for binary-only"
      [] e.op = "remove binary" ->
            /\ message.rule = "variants.platform.binary is required for binary-only"
            /\ message.platform = e.platform
      [] OTHER -> FALSE

\* C12: when one of provenance, toolchain.pico_sdk_version, abi or the binary
\* of a declared platform is removed from a manifest that validated as
\* binary-only, validation fails and an error names the removed field.
C12_BinaryOnlyOmissionFails ==
    (man.pc = "done" /\ man.base.ok /\ man.base.tier = "binary-only"
        /\ man.lastEdit \in Removals) =>
            /\ ~man.result.ok
            /\ \E i \in 1..Len(man.result.errors) :
                 NamesRemoved(man.result.errors[i], man.lastEdit)

\* C12 witness: the binary of a platform was removed from a valid binary-only
\* manifest of two platforms and the validation has failed
C12_Witness ==
    /\ man.pc = "done"
    /\ man.base.ok /\ man.base.tier = "binary-only" /\ Len(man.base.platforms) = 2
    /\ man.lastEdit = [op |-> "remove binary", platform |-> P_rp2040]
    /\ ~man.result.ok

\* C13: when one of provenance, toolchain.pico_sdk_version, abi or the binary
\* of a declared platform is removed from a manifest that validated as source
\* tier, validation succeeds and returns at least one warning.
C13_SourceOmissionWarns ==
    (man.pc = "done" /\ man.base.ok /\ man.base.tier = "source"
        /\ man.lastEdit \in Removals) =>
            /\ man.result.ok
            /\ man.result.warnings # <<>>

\* The platforms the document declares: the string items of platforms
Declared(doc) ==
    IF doc.platforms.kind # "array" THEN {}
    ELSE { trim(doc.platforms.items[i].value) :
             i \in { j \in 1..Len(doc.platforms.items) :
                       doc.platforms.items[j].kind = "string" } }

Violation(field, platform) == [field |-> field, platform |-> platform]

\* The recognized platforms of a platforms array of strings, whose variants
\* are looked at
Checked(doc) ==
    IF doc.platforms.kind = "array"
       /\ \A i \in 1..Len(doc.platforms.items) : doc.platforms.items[i].kind = "string"
    THEN Declared(doc) \cap Platforms
    ELSE {}

\* The field-level violations of a document: scalar fields, unrecognized
\* platforms, and path and hash of the binaries of the declared platforms
Violations(doc) ==
    { Violation(f, <<>>) : f \in
        { f \in {"name", "version", "description", "license"} :
            ~(doc[f].kind = "string" /\ trim(doc[f].value) # <<>>) } }
    \cup (IF doc.package_format # StringValue("2.0")
          THEN {Violation("package_format", <<>>)} ELSE {})
    \cup (IF doc.distribution_tier \notin
               {StringValue("source"), StringValue("source-preferred"),
                StringValue("binary-only")}
          THEN {Violation("distribution_tier", <<>>)} ELSE {})
    \cup (IF Declared(doc) \ Platforms # {}
          THEN {Violation("platforms", <<>>)} ELSE {})
    \cup { Violation("binary.path", q) : q \in
             { p \in Checked(doc) :
                 hasBinary(doc, p)
                 /\ ~isNonEmptyString(doc.variants.entries[p].binary.path) } }
    \cup { Violation("binary.sha256 empty", q) : q \in
             { p \in Checked(doc) :
                 hasBinary(doc, p)
                 /\ ~isNonEmptyString(doc.variants.entries[p].binary.sha256) } }
    \cup { Violation("binary.sha256 malformed", q) : q \in
             { p \in Checked(doc) :
                 /\ hasBinary(doc, p)
                 /\ isNonEmptyString(doc.variants.entries[p].binary.sha256)
                 /\ ~isSha256Hex(trim(doc.variants.entries[p].binary.sha256.value)) } }

\* The message is the one of the violation
Reports(message, v) ==
    /\ message.platform = v.platform
    /\ CASE v.field = "name" -> message.rule = "name must be a non-empty string"
         [] v.field = "version" -> message.rule = "version must be a non-empty string"
         [] v.field = "description" ->
               message.rule = "description must be a non-empty string"
         [] v.field = "license" -> message.rule = "license must be a non-empty string"
         [] v.field = "package_format" -> message.rule = "package_format must be 2.0"
         [] v.field = "distribution_tier" ->
               message.rule = "distribution_tier must be source or binary-only"
         [] v.field = "platforms" ->
               message.rule \in {"platforms may only contain rp2040 and rp2350",
                                 "platforms must be a non-empty string array"}
         [] v.field \in {"binary.path", "binary.sha256 empty"} ->
               message.rule = "variants.platform.binary.path and sha256 must be non-empty strings"
         [] v.field = "binary.sha256 malformed" ->
               message.rule = "variants.platform.binary.sha256 must be a 64-character hex SHA256"

\* C14: a document with field-level violations fails validation, and the
\* error raised holds a message for each of its violations.
C14_EveryViolationReported ==
    (man.pc = "done" /\ Violations(man.doc) # {}) =>
        /\ ~man.result.ok
        /\ \A v \in Violations(man.doc) :
             \E i \in 1..Len(man.result.errors) : Reports(man.result.errors[i], v)

\* The items of a sequence, each once
NoRepeats(items) == \A i, j \in 1..Len(items) : items[i] = items[j] => i = j

PlatformRules == {"platforms must be a non-empty string array",
                  "platforms may only contain rp2040 and rp2350"}

\* C15: a non-empty platforms array of recognized platforms raises no error
\* about platforms, repeated entries included, and validation returns its
\* entries each once; an array with an unrecognized entry fails validation.
C15_PlatformsDeduplicated ==
    (man.pc = "done" /\ man.doc.platforms.kind = "array"
        /\ man.doc.platforms.items # <<>>
        /\ \A i \in 1..Len(man.doc.platforms.items) :
             man.doc.platforms.items[i].kind = "string") =>
        IF Declared(man.doc) \subseteq Platforms
        THEN /\ \A i \in 1..Len(man.result.errors) :
                  man.result.errors[i].rule \notin PlatformRules
             /\ man.result.ok =>
                  /\ NoRepeats(man.result.platforms)
                  /\ {man.result.platforms[i] : i \in 1..Len(man.result.platforms)}
                       = Declared(man.doc)
        ELSE ~man.result.ok

(***************************************************************************)
(* resolver.ts: resolvePackageInput, resolveRemoteRelease, findPackage     *)
(* index-service.ts: fetchRemoteIndex                                      *)
(*                                                                         *)
(* An index document is its packages node: an array of packages, or a map  *)
(* from names to packages, given as the list of its entries in order.      *)
(***************************************************************************)

\* normalizeReleases(input): the releases as an array
normalizeReleases(input) ==
    IF input.kind = "array" THEN input.items
    ELSE IF input.kind = "map"
    THEN [i \in 1..Len(input.entries) |->
            [input.entries[i].value EXCEPT
                !.version = OrElse(input.entries[i].value.version, input.entries[i].key)]]
    ELSE <<>>

\* pkg.releases ?? pkg.versions
releasesNode(pkg) == IF pkg.releases.kind # "undefined" THEN pkg.releases ELSE pkg.versions

\* findPackage(indexData, packageName): the PackageEntry, or Undefined.  (A
\* package of the map form holds releases or versions in this model, so the
\* last alternative of pkg.releases ?? pkg.versions ?? value is not taken.)
findPackage(packagesNode, packageName) ==
    LET lowerName == toLowerCase(packageName)
    IN  IF packagesNode.kind = "array"
        THEN LET matching == {i \in 1..Len(packagesNode.items) :
                                toLowerCase(packagesNode.items[i].name) = lowerName}
             IN  IF matching = {} THEN Undefined
                 ELSE LET pkg == packagesNode.items[FirstIndex(matching)]
                      IN  [kind |-> "package", name |-> pkg.name,
                           releases |-> normalizeReleases(releasesNode(pkg))]
        ELSE IF packagesNode.kind = "map"
        THEN LET matching == {i \in 1..Len(packagesNode.entries) :
                                toLowerCase(packagesNode.entries[i].key) = lowerName}
             IN  IF matching = {} THEN Undefined
                 ELSE LET e == packagesNode.entries[FirstIndex(matching)]
                      IN  [kind |-> "package", name |-> OrElse(e.value.name, e.key),
                           releases |-> normalizeReleases(releasesNode(e.value))]
        ELSE Undefined

\* resolveRemoteRelease, behind selectArtifact: the throw for a release
\* without artifact, or the resolved release
resolveWithArtifact(packageEntry, release, artifact, options) ==
    IF ~hasUrl(artifact)
    THEN [ok |-> FALSE, message |-> "no-artifact", release |-> release]
    ELSE [ok |-> TRUE, message |-> "", release |-> release,
          resolved |-> [packageName |-> packageEntry.name,
                        version |-> release.version,
                        platform |-> options.platform,
                        downloadUrl |-> artifact.url,
                        checksum |-> OrElse(artifact.checksum, artifact.sha256)]]

\* resolveRemoteRelease, behind selectRelease: its throw, or the artifact
resolveSelected(packageEntry, selected, options) ==
    IF ~selected.ok
    THEN [ok |-> FALSE, message |-> selected.error, release |-> Undefined]
    ELSE resolveWithArtifact(packageEntry, selected.release,
                             selectArtifact(selected.release, options.platform), options)

\* resolveRemoteRelease, behind findPackage: the throw for a package the
\* index lacks, or the release
resolveInPackage(packageEntry, options) ==
    IF packageEntry.kind = "undefined"
    THEN [ok |-> FALSE, message |-> "package-not-found", release |-> Undefined]
    ELSE resolveSelected(packageEntry,
                         selectRelease(packageEntry.releases, options.version,
                                       options.includePrerelease),
                         options)

\* The body of the try block of resolveRemoteRelease on a fetched index: the
\* resolved release, or the message of the error thrown
resolveInIndex(indexData, packageName, options) ==
    resolveInPackage(findPackage(indexData, packageName), options)

\* A catch block that keeps the first message
keepFirstError(lastError, message) == IF lastError = "" THEN message ELSE lastError

\* catch (error) { lastError = error.message }
catchError(lastError, message) == message

\* An IndexRelease
IndexRelease(version, platform, url, artifacts, artifact) ==
    [version |-> version, prerelease |-> "undefined", platform |-> platform,
     url |-> url, checksum |-> <<>>, sha256 |-> CK_bare,
     artifact |-> artifact, artifacts |-> artifacts, assets |-> Undefined,
     platforms |-> Undefined, files |-> Undefined, downloads |-> Undefined]

BothPlatforms ==
    MapValue(P_rp2040 :> StringValue(<<"artifacts", "40">>)
          @@ P_rp2350 :> StringValue(<<"artifacts", "50">>))

OnlyRp2350 == MapValue(P_rp2350 :> StringValue(<<"artifacts", "50">>))

ArrayOf(items) == [kind |-> "array", items |-> items]

MapOf(entries) == [kind |-> "map", entries |-> entries]

Package(name, releases, versions) ==
    [name |-> name, releases |-> releases, versions |-> versions]

\* The index documents the candidate URLs serve
IndexDocs ==
    { \* another package only
      ArrayOf(<<Package(N_cd, ArrayOf(<<IndexRelease(V_1_2_3, <<>>, TopUrl,
                                                     Undefined, Undefined)>>),
                        Undefined)>>),
      \* artifacts per platform, and a later release for rp2350 only
      ArrayOf(<<Package(N_Ab,
                        ArrayOf(<<IndexRelease(V_1_2_0, <<>>, <<>>, BothPlatforms, Undefined),
                                  IndexRelease(V_1_2_3, <<>>, <<>>, OnlyRp2350, Undefined)>>),
                        Undefined)>>),
      \* packages keyed by name, versions keyed by version, a generic artifact
      MapOf(<<[key |-> N_ab,
               value |-> Package(<<>>, Undefined,
                           MapOf(<<[key |-> V_1_2_0,
                                    value |-> IndexRelease(<<>>, <<>>, <<>>, Undefined,
                                                 StringValue(<<"artifact", "s">>))]>>))]>>),
      \* one release, built for rp2350
      ArrayOf(<<Package(N_ab, ArrayOf(<<IndexRelease(V_1_2_3, P_rp2350, TopUrl,
                                                     Undefined, Undefined)>>),
                        Undefined)>>),
      \* one release without any artifact
      ArrayOf(<<Package(N_ab, ArrayOf(<<IndexRelease(V_1_2_3, <<>>, <<>>,
                                                     Undefined, NoUrlObject)>>),
                        Undefined)>>),
      \* no releases
      ArrayOf(<<Package(N_ab, Undefined, Undefined)>>) }

\* The candidate index URLs, and the longest list of them
IndexUrls == {"u1", "u2"}

MaxUrls == 2

UrlLists == UNION {[1..n -> IndexUrls] : n \in 1..MaxUrls}

\* The messages of the errors a fetch of an index ends in
FetchErrors == {"Index request failed", "Invalid index payload format"}

JsonErrors == {"HTTP failure", "Invalid JSON from index URL"}

ResolveOptions ==
    [version : {<<>>, V_1_2_3, V_1_2_0}, includePrerelease : BOOLEAN,
     platform : Platforms]

InitRemote ==
    /\ proj = IdleProj /\ trip = IdleTrip
    /\ rem \in [pc : {"loop"}, op : {"fetchRemoteIndex", "resolvePackageInput"},
                urls : UrlLists, i : {1}, log : {<<>>}, lastError : {""},
                outcome : {"pending"}, error : {""}, wrapped : {FALSE},
                packageName : {N_ab, N_cd}, options : ResolveOptions,
                downloads : {0}]
    /\ rem.op = "fetchRemoteIndex" =>
          /\ rem.packageName = N_ab
          /\ rem.options = [version |-> <<>>, includePrerelease |-> FALSE,
                            platform |-> P_rp2040]
    /\ cmp = IdleCmp /\ rsv = IdleRsv /\ dl = IdleDl /\ inst = IdleInst
    /\ sub = IdleSub /\ art = IdleArt /\ man = IdleMan /\ pack = IdlePack
    /\ heap = IdleIndex /\ cur = "r1" /\ last = IdleIndex /\ calls = 0

\* The state behind one pass of the loop over the candidate URLs: a return
\* out of the try block, or the catch block and, behind the last candidate,
\* the throw that follows the loop
afterCandidate(r, indexData, attempt, wrapped) ==
    LET entry == [url |-> r.urls[r.i], index |-> indexData, ok |-> attempt.ok,
                  message |-> attempt.message, release |-> attempt.release]
        lastError == catchError(r.lastError, attempt.message)
    IN  IF attempt.ok
        THEN [r EXCEPT !.log = Append(@, entry), !.outcome = "resolved",
                       !.pc = IF wrapped THEN "download" ELSE "done"]
        ELSE IF r.i < Len(r.urls)
        THEN [r EXCEPT !.log = Append(@, entry), !.lastError = lastError,
                       !.i = @ + 1]
        ELSE [r EXCEPT !.log = Append(@, entry), !.lastError = lastError,
                       !.i = @ + 1, !.pc = "done", !.outcome = "rejected",
                       !.wrapped = wrapped,
                       !.error = IF lastError = "" /\ ~wrapped
                                 THEN "No index URL available" ELSE lastError]

\* fetchRemoteIndex: return await fetchIndexPayload(url), or its catch block
FetchIndex ==
    /\ rem.pc = "loop" /\ rem.op = "fetchRemoteIndex"
    /\ \E attempt \in [ok : {FALSE}, message : FetchErrors, release : {Undefined}]
                       \cup [ok : {TRUE}, message : {""}, release : {Undefined}] :
         rem' = afterCandidate(rem, Undefined, attempt, FALSE)
    /\ UNCHANGED <<proj, trip, cmp, rsv, heap, cur, last, calls, dl, inst, sub, art, man, pack>>

\* resolveRemoteRelease: one pass of its loop, on the index the URL serves or
\* on the error of fetchJson
ResolveCandidate ==
    /\ rem.pc = "loop" /\ rem.op = "resolvePackageInput"
    /\ \/ \E message \in JsonErrors :
            rem' = afterCandidate(rem, Undefined,
                                  [ok |-> FALSE, message |-> message,
                                   release |-> Undefined], TRUE)
       \/ \E indexData \in IndexDocs :
            rem' = afterCandidate(rem, indexData,
                      resolveInIndex(indexData, rem.packageName, rem.options), TRUE)
    /\ UNCHANGED <<proj, trip, cmp, rsv, heap, cur, last, calls, dl, inst, sub, art, man, pack>>

\* resolvePackageInput: downloadReleasePackage(release)
DownloadResolved ==
    /\ rem.pc = "download"
    /\ rem' = [rem EXCEPT !.pc = "done", !.downloads = @ + 1]
    /\ UNCHANGED <<proj, trip, cmp, rsv, heap, cur, last, calls, dl, inst, sub, art, man, pack>>

NextRemote == FetchIndex \/ ResolveCandidate \/ DownloadResolved

SpecRemote == InitRemote /\ [][NextRemote]_vars

\* C16: the candidates contacted are the first candidates of the list, in
\* its order, each once; no candidate is contacted behind one that succeeded,
\* and the result is the one of that candidate; when every candidate has
\* failed, the operation fails with the message of the last candidate tried.
C16_FirstSuccessWins ==
    /\ Len(rem.log) <= Len(rem.urls)
    /\ \A k \in 1..Len(rem.log) : rem.log[k].url = rem.urls[k]
    /\ \A k \in 1..(Len(rem.log) - 1) : ~rem.log[k].ok
    /\ rem.outcome = "resolved" => (rem.log # <<>> /\ rem.log[Len(rem.log)].ok)
    /\ rem.outcome = "rejected" =>
          /\ Len(rem.log) = Len(rem.urls)
          /\ \A k \in 1..Len(rem.log) : ~rem.log[k].ok
          /\ rem.error = rem.log[Len(rem.log)].message

\* C16 witness: two candidates have failed with different messages and the
\* operation has failed
C16_Witness ==
    /\ rem.outcome = "rejected"
    /\ Len(rem.log) = 2
    /\ rem.log[1].message # rem.log[2].message

\* The names of the packages of an index document
PackageNamesOf(indexData) ==
    IF indexData.kind = "array"
    THEN {indexData.items[i].name : i \in 1..Len(indexData.items)}
    ELSE {indexData.entries[i].key : i \in 1..Len(indexData.entries)}

\* The package is in the index, whatever the case of its letters
InIndex(indexData, packageName) ==
    \E n \in PackageNamesOf(indexData) : toLowerCase(n) = toLowerCase(packageName)

\* The versions the index lists for the package
VersionsOf(indexData, packageName) ==
    LET releases == findPackage(indexData, packageName).releases
    IN  {normalizeVersion(releases[i].version) : i \in 1..Len(releases)}

\* The release holds an artifact for the platform: an entry of a per-platform
\* map, its own url when it is built for the platform, an asset of the
\* platform, a generic artifact, or a url that no other platform is named for
OffersFor(release, platform) ==
    \/ \E i \in 1..4 : MapUrl(release, MapNames[i], platform) # <<>>
    \/ (release.url # <<>> /\ toLowerCase(trim(release.platform)) = platform)
    \/ (release.assets.kind = "array"
        /\ \E i \in 1..Len(release.assets.items) :
             /\ toLowerCase(trim(release.assets.items[i].platform)) = platform
             /\ UrlOf(release.assets.items[i]) # <<>>)
    \/ UrlOf(release.artifact) # <<>>
    \/ (release.url # <<>> /\ toLowerCase(trim(release.platform)) \notin Platforms)

\* C19: resolve fails with a not-found error when the package is not in the
\* index or the requested version is not among its releases; it fails with a
\* no-artifact error, and attempts no download, when the chosen release holds
\* no artifact for the requested platform.
C19_NotFoundAndNoArtifact ==
    (rem.op = "resolvePackageInput" /\ rem.pc = "done"
        /\ rem.log[Len(rem.log)].index # Undefined) =>
        LET e == rem.log[Len(rem.log)]
        IN  /\ ~InIndex(e.index, rem.packageName) =>
                 (rem.outcome = "rejected" /\ rem.error = "package-not-found")
            /\ (InIndex(e.index, rem.packageName) /\ rem.options.version # <<>>
                /\ VersionsOf(e.index, rem.packageName) # {}
                /\ normalizeVersion(rem.options.version)
                     \notin VersionsOf(e.index, rem.packageName)) =>
                 (rem.outcome = "rejected" /\ rem.error = "version-not-found")
            /\ (e.release # Undefined /\ ~OffersFor(e.release, rem.options.platform)) =>
                 (rem.outcome = "rejected" /\ rem.error = "no-artifact"
                  /\ rem.downloads = 0)

(***************************************************************************)
(* pack.ts: packCommand, validateTierRules, emitIndexMetadata              *)
(*                                                                         *)
(* A path string is a sequence of characters; a resolved path is the       *)
(* sequence of its segments below the file system root.                    *)
(***************************************************************************)

\* The segments of a path string that name something: no empty segment, no "."
RECURSIVE namedSegments(_)
namedSegments(segments) ==
    IF segments = <<>> THEN <<>>
    ELSE IF Head(segments) = <<>> \/ Head(segments) = <<".">>
    THEN namedSegments(Tail(segments))
    ELSE <<Head(segments)>> \o namedSegments(Tail(segments))

\* Walks the segments from a directory; ".." leaves a directory, and stays
\* at the file system root
RECURSIVE walk(_, _)
walk(dir, segments) ==
    IF segments = <<>> THEN dir
    ELSE IF Head(segments) = <<".", ".">>
    THEN walk(IF dir = <<>> THEN <<>> ELSE SubSeq(dir, 1, Len(dir) - 1), Tail(segments))
    ELSE walk(Append(dir, Head(segments)), Tail(segments))

\* path.isAbsolute(p) of a POSIX path string
isAbsolute(p) == p # <<>> /\ Head(p) = "/"

\* path.resolve(from, p) for a resolved directory and a path string
pathResolve(from, p) ==
    walk(IF isAbsolute(p) THEN <<>> ELSE from, namedSegments(split(p, "/")))

\* The length of the longest common prefix of two resolved paths
RECURSIVE commonPrefix(_, _)
commonPrefix(a, b) ==
    IF a = <<>> \/ b = <<>> \/ Head(a) # Head(b) THEN 0
    ELSE 1 + commonPrefix(Tail(a), Tail(b))

\* path.relative(from, to): the segments of the relative path
pathRelative(from, to) ==
    LET k == commonPrefix(from, to)
    IN  [i \in 1..(Len(from) - k) |-> <<".", ".">>] \o SubSeq(to, k + 1, Len(to))

\* A check of the relative path that lets every path through
neverDotDot(segments) == FALSE

\* relativeBinaryPath.startsWith('..'), on the segments of the path string
startsWithDotDot(segments) ==
    /\ segments # <<>>
    /\ Len(segments[1]) >= 2
    /\ segments[1][1] = "." /\ segments[1][2] = "."

\* path.extname(filePath) of a file: from the last "." of the base name on;
\* empty when the base name has no "." behind its first character
extname(filePath) ==
    LET base == filePath[Len(filePath)]
        dots == {i \in 2..Len(base) : base[i] = "."}
    IN  IF dots = {} THEN <<>>
        ELSE SubSeq(base, CHOOSE i \in dots : \A j \in dots : j <= i, Len(base))

EXT_C == <<".", "c">>
EXT_CC == <<".", "c", "c">>
EXT_CPP == <<".", "c", "p", "p">>
EXT_CXX == <<".", "c", "x", "x">>
EXT_S == <<".", "s">>
EXT_ASM == <<".", "a", "s", "m">>
EXT_H == <<".", "h">>
EXT_HPP == <<".", "h", "p", "p">>
EXT_HH == <<".", "h", "h">>
EXT_HXX == <<".", "h", "x", "x">>

D_include == <<"i", "n", "c", "l", "u", "d", "e">>

D_cmake == <<"c", "m", "a", "k", "e">>

F_picopak_json == <<"p", "i", "c", "o", "p", "a", "k", ".", "j", "s", "o", "n">>

EXT_cmake == <<".", "c", "m", "a", "k", "e">>

\* A file of the tree: its resolved path and the content it holds
File(path, content) == [path |-> path, content |-> content]

\* fs.existsSync(path) && fs.statSync(path).isFile()
isFile(tree, path) == \E f \in tree.files : f.path = path

\* fs.existsSync(path) && fs.statSync(path).isDirectory()
isDirectory(tree, path) == path \in tree.dirs

contentOf(tree, path) == (CHOOSE f \in tree.files : f.path = path).content

\* crypto.createHash('sha256').update(content).digest('hex'): 64 hex digits,
\* a different digest for each content
sha256Hex(content) == content \o [i \in 1..(HexLength - Len(content)) |-> "0"]

\* A scan of the package root alone, without its subdirectories
listFilesFlat(tree, rootDir) ==
    {f \in tree.files : Len(f.path) = Len(rootDir) + 1
                        /\ SubSeq(f.path, 1, Len(rootDir)) = rootDir}

\* listFilesRecursive(rootDir): the files below the directory
listFilesRecursive(tree, rootDir) ==
    IF ~isDirectory(tree, rootDir) THEN {}
    ELSE {f \in tree.files :
            Len(f.path) > Len(rootDir) /\ SubSeq(f.path, 1, Len(rootDir)) = rootDir}

implementationExts == {EXT_C, EXT_CC, EXT_CPP, EXT_CXX, EXT_S, EXT_ASM}

sourceLikeExts == {EXT_H, EXT_HPP, EXT_HH, EXT_HXX} \cup implementationExts

\* The error of validateTierRules for the binary of one platform
binaryError(tree, sourceDir, platform, binary) ==
    IF binary.kind = "undefined" THEN <<>>
    ELSE LET resolvedBinaryPath == pathResolve(sourceDir, binary.path)
             relativeBinaryPath == pathRelative(sourceDir, resolvedBinaryPath)
         IN  IF startsWithDotDot(relativeBinaryPath)
             THEN <<Message("binary.path must stay inside package root", platform)>>
             ELSE IF ~isFile(tree, resolvedBinaryPath)
             THEN <<Message("binary.path points to a missing file", platform)>>
             ELSE IF sha256Hex(contentOf(tree, resolvedBinaryPath)) # binary.sha256
             THEN <<Message("binary.sha256 does not match file contents", platform)>>
             ELSE <<>>

\* for (const platform of manifest.platforms)
RECURSIVE allBinaryErrors(_, _, _, _)
allBinaryErrors(tree, sourceDir, platforms, binaries) ==
    IF platforms = <<>> THEN <<>>
    ELSE binaryError(tree, sourceDir, Head(platforms), Head(binaries))
         \o allBinaryErrors(tree, sourceDir, Tail(platforms), Tail(binaries))

\* The files of the tree with an extension of the set, compared in lower case
withExtension(files, exts) == {f \in files : toLowerCase(extname(f.path)) \in exts}

\* validateTierRules(sourceDir, manifest): the errors it throws, or its warnings
validateTierRules(tree, sourceDir, manifest) ==
    LET errors ==
            allBinaryErrors(tree, sourceDir, manifest.platforms, manifest.binaries)
            \o (IF manifest.tier = "binary-only"
                THEN pushIf(withExtension(listFilesRecursive(tree, sourceDir),
                                          implementationExts) # {},
                            "binary-only cannot include source implementation files")
                ELSE <<>>)
        warnings ==
            IF manifest.tier = "binary-only" THEN <<>>
            ELSE pushIf(withExtension(listFilesRecursive(tree, Append(sourceDir, D_include)),
                                      sourceLikeExts) = {},
                        "source package should include source or header files under include/")
    IN  IF errors # <<>> THEN [ok |-> FALSE, errors |-> errors, warnings |-> <<>>]
        ELSE [ok |-> TRUE, errors |-> <<>>, warnings |-> warnings]

(***************************************************************************)
(* Specification of pack: a package directory and its picopak.json are     *)
(* drawn, packCommand runs once, and the archive it leaves is submitted    *)
(* with its sidecar, as it is or after its bytes were replaced.            *)
(***************************************************************************)

\* The package root, resolved
SourceDir == <<<<"w">>, <<"p">>>>

\* The files every drawn tree holds: the manifest, a file beside the package
\* root and a file in a directory whose name begins with two dots
FixedFiles ==
    {File(Append(SourceDir, F_picopak_json), <<"a">>),
     File(<<<<"w">>, <<"x">>>>, <<"a">>),
     File(<<<<"w">>, <<"p">>, <<".", ".", "l">>, <<"x">>>>, <<"a">>)}

\* The library a binary path names: absent, or holding one of two contents
LibraryFiles == {{}, {File(<<<<"w">>, <<"p">>, <<"l">>, <<"x">>>>, <<"a">>)}, {File(<<<<"w">>, <<"p">>, <<"l">>, <<"x">>>>, <<"b">>)}}

\* One more file of the tree: none, implementation files at several depths
\* and in both cases, a file whose whole name is ".c", a text file
ExtraFiles ==
    {{}, {File(<<<<"w">>, <<"p">>, <<"s">>, <<"a", ".", "c">>>>, <<"a">>)}, {File(<<<<"w">>, <<"p">>, <<"s">>, <<"a", ".", "C">>>>, <<"a">>)}, {File(<<<<"w">>, <<"p">>, <<"a", ".", "c", "p", "p">>>>, <<"a">>)},
     {File(<<<<"w">>, <<"p">>, <<"s">>, <<"d">>, <<"a", ".", "a", "s", "m">>>>, <<"a">>)}, {File(<<<<"w">>, <<"p">>, <<"s">>, <<".", "c">>>>, <<"a">>)}, {File(<<<<"w">>, <<"p">>, <<"s">>, <<"a", ".", "m", "d">>>>, <<"a">>)}}

HeaderFiles == {{}, {File(<<<<"w">>, <<"p">>, <<"i", "n", "c", "l", "u", "d", "e">>, <<"a", ".", "h">>>>, <<"a">>)}}

\* The directories above the files, and the ones that may be empty
dirsOf(files) ==
    UNION {{SubSeq(f.path, 1, n) : n \in 0..(Len(f.path) - 1)} : f \in files}

Tree(files, includeDir) ==
    [files |-> files,
     dirs  |-> dirsOf(files) \cup {SourceDir}
               \cup (IF includeDir THEN {Append(SourceDir, D_include)} ELSE {})]

PackageCMake == File(SourceDir \o <<D_cmake, <<"a", "b">> \o EXT_cmake>>, <<"a">>)

\* The package directories: complete ones, ones without the CMake file and
\* ones without include/
Trees ==
    { Tree(FixedFiles \cup {PackageCMake} \cup l \cup e \cup h, TRUE) :
        l \in LibraryFiles, e \in ExtraFiles, h \in HeaderFiles }
    \cup { Tree(FixedFiles \cup l, TRUE) : l \in LibraryFiles }
    \cup { Tree(FixedFiles \cup {PackageCMake} \cup l, FALSE) : l \in LibraryFiles }

\* The binary.path values of a manifest
BinaryPaths ==
    {<<"l", "/", "x">>, <<".", ".", "/", "x">>, <<"/", "w", "/", "x">>, <<"l", "/", ".", ".", "/", ".", ".", "/", "x">>, <<".", ".", "l", "/", "x">>, <<"l">>, <<".", "/", "l", "/", "x">>, <<" ", "l", "/", "x", " ">>}

\* The digest of a content as a manifest declares it, in either case
upperHex(digest) == [i \in 1..Len(digest) |-> IF digest[i] = "a" THEN "A" ELSE digest[i]]

DeclaredHashes == {sha256Hex(<<"a">>), upperHex(sha256Hex(<<"a">>)), sha256Hex(<<"b">>)}

GoodBinary == Binary(StringValue(<<"l", "/", "x">>), StringValue(sha256Hex(<<"a">>)))

binariesOf(paths, hashes) ==
    {Undefined} \cup { Binary(StringValue(p), StringValue(h)) : p \in paths, h \in hashes }

\* picopak.json: a well-formed manifest of one platform with a drawn binary,
\* or of two platforms whose first binary is drawn
PackManifests ==
    { [FullManifest(tier, <<P_rp2040>>) EXCEPT
          !.variants.entries = [p \in {P_rp2040} |-> Variant(p, b)]] :
        tier \in {"source", "binary-only"}, b \in binariesOf(BinaryPaths, DeclaredHashes) }
    \cup
    { [FullManifest(tier, <<P_rp2350, P_rp2040>>) EXCEPT
          !.variants.entries = [p \in {P_rp2350, P_rp2040} |->
                                  Variant(p, IF p = P_rp2350 THEN b ELSE GoodBinary)]] :
        tier \in {"source", "binary-only"},
        b \in binariesOf({<<"l", "/", "x">>, <<".", ".", "/", "x">>, <<"l">>},
                         {sha256Hex(<<"a">>), sha256Hex(<<"b">>)}) }

\* The bytes tar may write
ArchiveBytes == {<<"a">>, <<"a", "b">>}

\* The output directory: the archive and its sidecar
NoOutput ==
    [archive |-> [exists |-> FALSE, content |-> <<>>, holds |-> {}],
     sidecar |-> [exists |-> FALSE, sha256 |-> <<>>, size_bytes |-> 0]]

\* What an earlier run of pack left there
OldOutput ==
    [archive |-> [exists |-> TRUE, content |-> <<"b", "b">>, holds |-> {}],
     sidecar |-> [exists |-> TRUE, sha256 |-> sha256Hex(<<"b", "b">>), size_bytes |-> 2]]

\* A sidecar that records no size
emitNoSize(artifact) ==
    [exists |-> TRUE, sha256 |-> sha256Hex(artifact.content), size_bytes |-> 0]

\* emitIndexMetadata(outputDir, archiveName, artifactPath, manifest): the
\* artifact section of the sidecar it writes
emitIndexMetadata(artifact) ==
    [exists |-> TRUE, sha256 |-> sha256Hex(artifact.content),
     size_bytes |-> Len(artifact.content)]

\* No manifest was validated
NotValidated ==
    [ok |-> FALSE, errors |-> <<>>, warnings |-> <<>>, tier |-> "undefined",
     platforms |-> <<>>, binaries |-> <<>>]

\* The tier check was not reached
NotRun == [ok |-> FALSE, errors |-> <<>>, warnings |-> <<>>]

\* packCommand(sourceDir, options): how the run ends, what the tier check
\* said and the output directory it leaves; jsonOk is whether picopak.json
\* parses, tarOk and bytes are what tar does
packCommand(tree, doc, out, jsonOk, tarOk, bytes) ==
    LET stop(exit) == [exit |-> exit, ran |-> FALSE, tier |-> NotRun, out |-> out,
                       manifest |-> NotValidated]
        validated == validateManifestV2(doc)
        tier == validateTierRules(tree, SourceDir, validated)
        cmakeFile == SourceDir \o <<D_cmake, trim(doc.name.value) \o EXT_cmake>>
        removed == [out EXCEPT !.archive = NoOutput.archive]
        artifact == [exists |-> TRUE, content |-> bytes,
                     holds |-> listFilesRecursive(tree, SourceDir)]
    IN  IF ~isDirectory(tree, SourceDir) THEN stop("no-source-dir")
        ELSE IF ~isFile(tree, Append(SourceDir, F_picopak_json)) THEN stop("no-manifest")
        ELSE IF ~isDirectory(tree, Append(SourceDir, D_include)) THEN stop("no-include")
        ELSE IF ~jsonOk THEN stop("parse-failed")
        ELSE IF ~validated.ok THEN stop("invalid-manifest")
        ELSE IF ~tier.ok
        THEN [exit |-> "content-invalid", ran |-> TRUE, tier |-> tier, out |-> out,
              manifest |-> validated]
        ELSE IF ~isFile(tree, cmakeFile)
        THEN [exit |-> "no-cmake", ran |-> TRUE, tier |-> tier, out |-> out,
              manifest |-> validated]
        ELSE IF ~tarOk
        THEN [exit |-> "tar-failed", ran |-> TRUE, tier |-> tier, out |-> removed,
              manifest |-> validated]
        ELSE [exit |-> "ok", ran |-> TRUE, tier |-> tier, manifest |-> validated,
              out |-> [archive |-> artifact, sidecar |-> emitIndexMetadata(artifact)]]

\* What JSON.parse and tar do in a run: picopak.json does not parse, tar
\* fails, or tar writes one of the archives
PackRuns ==
    {[jsonOk |-> FALSE, tarOk |-> TRUE, bytes |-> <<>>],
     [jsonOk |-> TRUE, tarOk |-> FALSE, bytes |-> <<>>]}
    \cup [jsonOk : {TRUE}, tarOk : {TRUE}, bytes : ArchiveBytes]

InitPack ==
    /\ proj = IdleProj /\ trip = IdleTrip
    /\ cmp = IdleCmp /\ rsv = IdleRsv /\ heap = IdleIndex /\ cur = "r1"
    /\ last = IdleIndex /\ calls = 0 /\ dl = IdleDl /\ inst = IdleInst
    /\ sub = IdleSub /\ art = IdleArt /\ man = IdleMan /\ rem = IdleRem
    /\ \E tree \in Trees, doc \in PackManifests, out \in {NoOutput, OldOutput} :
         pack = [pc |-> "start", tree |-> tree, doc |-> doc, before |-> out,
                 out |-> out, exit |-> "none", ran |-> FALSE, tier |-> NotRun,
                 manifest |-> NotValidated,
                 modified |-> FALSE, verdict |-> "none"]

\* picopak pack <sourceDir>
PackCommand ==
    /\ pack.pc = "start"
    /\ \E run \in PackRuns :
         LET r == packCommand(pack.tree, pack.doc, pack.out,
                              run.jsonOk, run.tarOk, run.bytes)
         IN  pack' = [pack EXCEPT !.pc = "packed", !.exit = r.exit, !.ran = r.ran,
                                  !.tier = r.tier, !.out = r.out,
                                  !.manifest = r.manifest]
    /\ UNCHANGED <<proj, trip, cmp, rsv, heap, cur, last, calls, dl, inst, sub, art, man, rem>>

\* The archive is overwritten with other bytes before it is submitted
ModifyArchive ==
    /\ pack.pc = "packed" /\ pack.exit = "ok" /\ ~pack.modified
    /\ \E bytes \in ArchiveBytes \cup {<<"b">>, <<"b", "a">>} :
         /\ bytes # pack.out.archive.content
         /\ pack' = [pack EXCEPT !.out.archive.content = bytes, !.modified = TRUE]
    /\ UNCHANGED <<proj, trip, cmp, rsv, heap, cur, last, calls, dl, inst, sub, art, man, rem>>

\* picopak submit of the archive with the sidecar: validateArtifact
SubmitArtifact ==
    /\ pack.pc = "packed" /\ pack.exit = "ok"
    /\ pack' = [pack EXCEPT
                  !.pc = "submitted",
                  !.verdict = validateArtifact(TRUE,
                                               Len(pack.out.archive.content),
                                               sha256Hex(pack.out.archive.content),
                                               pack.out.sidecar.size_bytes,
                                               pack.out.sidecar.sha256)]
    /\ UNCHANGED <<proj, trip, cmp, rsv, heap, cur, last, calls, dl, inst, sub, art, man, rem>>

NextPack == PackCommand \/ ModifyArchive \/ SubmitArtifact

SpecPack == InitPack /\ [][NextPack]_vars

\* The run of pack reached the tier content check
TierChecked == pack.pc # "start" /\ pack.ran

\* The manifest the tier content check was given
PackedManifest == pack.manifest

\* The platforms whose variant declares a binary
WithBinary ==
    {i \in 1..Len(PackedManifest.platforms) : PackedManifest.binaries[i].kind = "object"}

\* Where the binary path of the i-th platform leads from the package root
TargetOf(i) == pathResolve(SourceDir, PackedManifest.binaries[i].path)

InsideRoot(i) ==
    /\ Len(TargetOf(i)) >= Len(SourceDir)
    /\ SubSeq(TargetOf(i), 1, Len(SourceDir)) = SourceDir

Exists(i) == \E f \in pack.tree.files : f.path = TargetOf(i)

HashesAsDeclared(i) ==
    \E f \in pack.tree.files :
        /\ f.path = TargetOf(i)
        /\ sha256Hex(f.content) = PackedManifest.binaries[i].sha256

\* The messages of the tier content check about binaries
BinaryMessages ==
    {k \in 1..Len(pack.tier.errors) : pack.tier.errors[k].platform # <<>>}

\* C17: the tier content check fails whenever the binary path of some
\* platform leads outside the package root, names no file or names a file
\* whose SHA-256 is not the declared one; when it raises nothing about
\* binaries, every declared binary lies inside the root, exists and hashes to
\* its declared value
C17_BinaryChecks ==
    TierChecked =>
        /\ (\E i \in WithBinary : ~InsideRoot(i) \/ ~Exists(i) \/ ~HashesAsDeclared(i))
              => (~pack.tier.ok /\ pack.exit = "content-invalid")
        /\ (pack.tier.ok \/ BinaryMessages = {})
              => \A i \in WithBinary : InsideRoot(i) /\ Exists(i) /\ HashesAsDeclared(i)

\* A binary path that leaves the package root for a file that exists and has
\* the declared hash was refused
C17_Witness ==
    /\ TierChecked
    /\ \E i \in WithBinary : ~InsideRoot(i) /\ Exists(i) /\ HashesAsDeclared(i)
    /\ ~pack.tier.ok

\* The base name ends, in either case, in "." and an implementation extension
HasImplementationExtension(f) ==
    LET base == f.path[Len(f.path)]
    IN  \E e \in implementationExts :
            /\ Len(base) > Len(e)
            /\ toLowerCase(SubSeq(base, Len(base) - Len(e) + 1, Len(base))) = e

\* The files of the package tree, at every depth
PackageFiles ==
    {f \in pack.tree.files :
        Len(f.path) > Len(SourceDir) /\ SubSeq(f.path, 1, Len(SourceDir)) = SourceDir}

ImplementationFiles == {f \in PackageFiles : HasImplementationExtension(f)}

\* C18: for a binary-only manifest the tier content check fails whenever a
\* file of the package tree has an implementation extension, in either case,
\* and pack then writes nothing; an archive pack produces of a binary-only
\* package holds no such file; without such files and with sound binaries
\* the check passes, headers or not
C18_BinaryOnlyHoldsNoSources ==
    (TierChecked /\ PackedManifest.tier = "binary-only") =>
        /\ ImplementationFiles # {}
              => (~pack.tier.ok /\ pack.exit = "content-invalid" /\ pack.out = pack.before)
        /\ pack.exit = "ok"
              => \A f \in pack.out.archive.holds : ~HasImplementationExtension(f)
        /\ (ImplementationFiles = {} /\ BinaryMessages = {}) => pack.tier.ok

\* A binary-only package with an upper-case or nested implementation file and
\* sound binaries was refused
C18_Witness ==
    /\ TierChecked /\ PackedManifest.tier = "binary-only"
    /\ BinaryMessages = {}
    /\ \E f \in ImplementationFiles :
          Len(f.path) > Len(SourceDir) + 1 /\ f.path[Len(f.path)] # toLowerCase(f.path[Len(f.path)])
    /\ pack.exit = "content-invalid"

\* C20: the sidecar pack emits records the SHA-256 and the size of the
\* archive pack produced; the unmodified archive passes validateArtifact with
\* it, and an archive with other bytes or another size fails it
C20_SidecarMatchesArchive ==
    /\ (pack.pc # "start" /\ pack.exit = "ok" /\ ~pack.modified)
          => /\ pack.out.archive.exists /\ pack.out.sidecar.exists
             /\ pack.out.sidecar.sha256 = sha256Hex(pack.out.archive.content)
             /\ pack.out.sidecar.size_bytes = Len(pack.out.archive.content)
    /\ pack.pc = "submitted"
          => (pack.verdict = "ok" <=> ~pack.modified)

\* An archive of the recorded size but of other bytes was submitted and refused
C20_Witness ==
    /\ pack.pc = "submitted" /\ pack.modified
    /\ Len(pack.out.archive.content) = pack.out.sidecar.size_bytes
    /\ pack.verdict = "artifact-checksum"

(***************************************************************************)
(* Checksum verification                                                   *)
(***************************************************************************)

\* A download whose file was verified against a checksum
Verified ==
    /\ dl.op = "downloadToFile" /\ dl.pc = "done"
    /\ dl.fileHash # <<>> /\ dl.checksum # <<>>

SameIgnoringCase(a, b) ==
    Len(a) = Len(b) /\ \A i \in 1..Len(a) : LowerChar(a[i]) = LowerChar(b[i])

Colons(c) == {i \in 1..Len(c) : c[i] = ":"}

FirstColon(c) == CHOOSE i \in Colons(c) : \A j \in Colons(c) : i <= j

\* The algorithm a checksum names, and the hex value it gives
AlgorithmNamed(c) ==
    IF Colons(c) = {} THEN SHA256 ELSE SubSeq(trim(c), 1, FirstColon(trim(c)) - 1)

HexGiven(c) ==
    IF Colons(c) = {} THEN trim(c)
    ELSE SubSeq(trim(c), FirstColon(trim(c)) + 1, Len(trim(c)))

\* C21: a checksum is read as algorithm:hexvalue or as a bare hex value of
\* SHA-256; an algorithm other than sha256 is refused as unsupported whatever
\* the file holds, and otherwise the file passes exactly when its digest is
\* the hex value, letter case aside
C21_ChecksumForms ==
    Verified =>
        IF ~SameIgnoringCase(AlgorithmNamed(dl.checksum), SHA256)
        THEN dl.outcome = "rejected" /\ dl.error = "unsupported-algorithm"
        ELSE IF SameIgnoringCase(HexGiven(dl.checksum), dl.fileHash)
        THEN dl.outcome = "resolved"
        ELSE dl.outcome = "rejected" /\ dl.error = "checksum-mismatch"

\* A checksum under another algorithm, with the hex value of the file, was
\* refused as unsupported
C21_Witness ==
    /\ Verified
    /\ dl.checksum = CK_md5 /\ dl.fileHash = H_ab
    /\ dl.error = "unsupported-algorithm"

(***************************************************************************)
(* Selection by explicit version, and the prerelease rule                  *)
(***************************************************************************)

\* A version without the blanks around it and without a leading v
Stripped(v) ==
    LET t == trim(v)
    IN  IF t # <<>> /\ LowerChar(t[1]) = "v" THEN SubSeq(t, 2, Len(t)) ELSE t

\* The releases of the drawn list whose version is the requested one
Requested == {i \in 1..Len(rsv.releases) :
                Stripped(rsv.releases[i].version) = Stripped(rsv.version)}

\* C22: with an explicit version, selectRelease returns the first release
\* whose stripped version equals the stripped request, whatever the
\* prerelease flags and includePrerelease say, and fails when there is none
C22_ExplicitVersionIsExact ==
    (rsv.pc = "out" /\ rsv.version # <<>>) =>
        IF Requested = {} THEN ~rsv.result.ok
        ELSE /\ rsv.result.ok
             /\ rsv.result.release =
                  rsv.releases[CHOOSE i \in Requested : \A j \in Requested : i <= j]

\* A request written with a leading v selected a release written without
\* it, flagged prerelease, with includePrerelease off
C22_Witness ==
    /\ rsv.pc = "out" /\ rsv.version = V_v1_2_3 /\ ~rsv.includePrerelease
    /\ rsv.result.ok
    /\ rsv.result.release = [version |-> V_1_2_3, prerelease |-> "true"]

\* Prerelease by the rule: the flag when the entry carries one, otherwise a
\* hyphen in the stripped version
PrereleaseByRule(release) ==
    IF release.prerelease = "true" THEN TRUE
    ELSE IF release.prerelease = "false" THEN FALSE
    ELSE \E i \in 1..Len(Stripped(release.version)) : Stripped(release.version)[i] = "-"

StableEntries == {i \in 1..Len(rsv.releases) : ~PrereleaseByRule(rsv.releases[i])}

\* C26: latest-stable selection returns an entry that is no prerelease by
\* the rule, and fails for want of a stable release exactly when every entry
\* is a prerelease by the rule
C26_PrereleaseRule ==
    (rsv.pc = "out" /\ rsv.version = <<>> /\ ~rsv.includePrerelease
        /\ Len(rsv.releases) > 0) =>
        IF StableEntries = {} THEN ~rsv.result.ok /\ rsv.result.error = "no-stable"
        ELSE /\ rsv.result.ok
             /\ \E i \in StableEntries : rsv.result.release = rsv.releases[i]

\* A list of an unflagged hyphenated version and a hyphenated version
\* flagged stable: the flagged one was selected
C26_Witness ==
    /\ rsv.pc = "out" /\ rsv.version = <<>> /\ ~rsv.includePrerelease
    /\ Len(rsv.releases) = 2
    /\ rsv.releases[1] = [version |-> V_2_0_0_beta, prerelease |-> "undefined"]
    /\ rsv.releases[2] = [version |-> V_1_2_3_rc_1, prerelease |-> "false"]
    /\ rsv.result.ok /\ rsv.result.release = rsv.releases[2]

(***************************************************************************)
(* The index mutator: conflicts, shapes, find-or-create                    *)
(***************************************************************************)

\* The packages member of the document at a reference
PackagesOf(h, ref) == Value(h, ref)[2]

\* The package nodes of a packages member, in their order
NodesOf(pk) ==
    IF pk.kind = "array" THEN pk.items
    ELSE IF pk.kind = "map" THEN [i \in 1..Len(pk.entries) |-> pk.entries[i].value]
    ELSE <<>>

\* The nodes a package name designates: by name, letter case aside, in the
\* array shape, and by the exact key in the map shape
Designated(pk, pkg) ==
    IF pk.kind = "array"
    THEN {i \in 1..Len(pk.items) : SameIgnoringCase(pk.items[i].name, pkg)}
    ELSE IF pk.kind = "map" THEN {i \in 1..Len(pk.entries) : pk.entries[i].key = pkg}
    ELSE {}

FirstOf(S) == CHOOSE i \in S : \A j \in S : i <= j

ReleaseCount(releases) ==
    IF releases.kind = "array" THEN Len(releases.items)
    ELSE IF releases.kind = "map" THEN Len(releases.entries)
    ELSE 0

\* The versions a releases member holds
VersionsIn(releases) ==
    IF releases.kind = "array" THEN {releases.items[i].version : i \in 1..Len(releases.items)}
    ELSE IF releases.kind = "map" THEN {releases.entries[i].key : i \in 1..Len(releases.entries)}
    ELSE {}

\* The versions already published under a package name
PublishedUnder(pk, pkg) ==
    UNION {VersionsIn(NodesOf(pk)[i].releases) : i \in Designated(pk, pkg)}

\* C23: a call that publishes a version, written without blanks around it,
\* that is a version the package already holds with or without a leading v
\* ends in a conflict
C23_NormalizedVersionConflicts ==
    [][\A v \in PublishedUnder(PackagesOf(heap, cur), last'.pkg) :
          (trim(last'.version) = last'.version /\ trim(v) = v
             /\ Stripped(v) = Stripped(last'.version))
          => last'.status = "conflict"]_vars

\* C24: a successful call leaves the packages member in its shape and the
\* releases of every package node in their form; in the array shape a call
\* on a node whose releases are no array is rejected
C24_ShapePreserved ==
    [][LET old == PackagesOf(heap, cur)
           new == PackagesOf(heap', cur')
       IN  /\ (last'.status = "ok" /\ old.kind \in {"array", "map"}) =>
                 /\ new.kind = old.kind
                 /\ Len(NodesOf(new)) >= Len(NodesOf(old))
                 /\ \A i \in 1..Len(NodesOf(old)) :
                       NodesOf(old)[i].releases.kind \in {"array", "map"} =>
                           NodesOf(new)[i].releases.kind = NodesOf(old)[i].releases.kind
           /\ (old.kind = "array" /\ Designated(old, last'.pkg) # {}
                 /\ NodesOf(old)[FirstOf(Designated(old, last'.pkg))].releases.kind # "array")
                 => (last'.status = "format" /\ new = old)]_vars

\* A release was added to the releases array of a node of a name-keyed map
C24_Witness ==
    /\ last.status = "ok"
    /\ PackagesOf(heap, cur).kind = "map"
    /\ \E i \in 1..Len(NodesOf(PackagesOf(heap, cur))) :
          /\ NodesOf(PackagesOf(heap, cur))[i].releases.kind = "array"
          /\ Len(NodesOf(PackagesOf(heap, cur))[i].releases.items) >= 2

\* C25: a successful call on a name that designates a node adds the release
\* to the first such node and leaves the number of nodes; on a name that
\* designates none it adds one node, which holds the release
C25_FindOrCreate ==
    [][last'.status = "ok" =>
         LET old == PackagesOf(heap, cur)
             new == PackagesOf(heap', cur')
             hit == Designated(old, last'.pkg)
         IN  IF hit # {}
             THEN /\ Len(NodesOf(new)) = Len(NodesOf(old))
                  /\ ReleaseCount(NodesOf(new)[FirstOf(hit)].releases)
                       = ReleaseCount(NodesOf(old)[FirstOf(hit)].releases) + 1
                  /\ last'.version \in VersionsIn(NodesOf(new)[FirstOf(hit)].releases)
             ELSE /\ Len(NodesOf(new)) = Len(NodesOf(old)) + 1
                  /\ VersionsIn(NodesOf(new)[Len(NodesOf(new))].releases)
                       = {last'.version}]_vars

\* A name that differs in letter case from a node of the array shape was
\* published into that node
C25_Witness ==
    /\ last.status = "ok" /\ last.pkg = N_Ab
    /\ PackagesOf(heap, cur).kind = "array"
    /\ Len(PackagesOf(heap, cur).items) = 1
    /\ PackagesOf(heap, cur).items[1].name = N_ab
    /\ Len(PackagesOf(heap, cur).items[1].releases.items) = 2

(***************************************************************************)
(* Installation over an existing library folder                            *)
(***************************************************************************)

pathJoin(dir, name) == walk(dir, namedSegments(split(name, "/")))

D_libs == <<"l", "i", "b", "s">>

\* The project directory of the commands, resolved
ProjectDir == <<<<"w">>, <<"p">>>>

isUnder(dir, p) == Len(p) >= Len(dir) /\ SubSeq(p, 1, Len(dir)) = dir

\* fs.existsSync(p)
existsSync(disk, p) == p = <<>> \/ p \in disk

\* fs.rmSync(p, { recursive: true, force: true })
rmSync(disk, p) == {d \in disk : ~isUnder(p, d)}

\* fs.mkdirSync(p, { recursive: true })
mkdirSync(disk, p) == disk \cup {SubSeq(p, 1, n) : n \in 1..Len(p)}

\* The directories of an extracted package
PackageDirs == {<<"c", "m", "a", "k", "e">>, <<"i", "n", "c", "l", "u", "d", "e">>}

\* copyDirectory(tempDir, dest) on the directories: dest is made when it is
\* not there, and the directories of the package are made below it
copyInto(disk, dest) ==
    mkdirSync(disk, dest) \cup {dest \o <<d>> : d \in PackageDirs}

\* removeCommand(packageName, projectDir): how it ends, the disk it leaves
\* and the directories it removed
removeCommand(disk, packageName, projectDir) ==
    LET libsDir == Append(projectDir, D_libs)
        targetPackageDir == pathJoin(libsDir, packageName)
    IN  IF ~existsSync(disk, targetPackageDir)
        THEN [exit |-> "not-installed", disk |-> disk, removed |-> {}, copied |-> {}]
        ELSE [exit |-> "removed", disk |-> rmSync(disk, targetPackageDir),
              removed |-> {targetPackageDir}, copied |-> {}]

\* installCommand behind the load of picopak.json, in install mode: how it
\* ends, the disk it leaves, the directories it removed and the ones it
\* copied the package into; verified is whether cmake/<name>.cmake is found
\* in the installed folder
installPackage(disk, name, projectDir, verified) ==
    LET libsDir == Append(projectDir, D_libs)
        disk1 == IF existsSync(disk, libsDir) THEN disk ELSE mkdirSync(disk, libsDir)
        targetLibDir == pathJoin(libsDir, name)
        installed == existsSync(disk1, targetLibDir)
        disk2 == IF installed THEN rmSync(disk1, targetLibDir) ELSE disk1
    IN  IF ~existsSync(disk, projectDir)
        THEN [exit |-> "no-project", disk |-> disk, removed |-> {}, copied |-> {}]
        ELSE [exit |-> IF verified THEN "installed" ELSE "verification-failed",
              disk |-> copyInto(disk2, targetLibDir),
              removed |-> IF installed THEN {targetLibDir} ELSE {},
              copied |-> {targetLibDir}]

\* Package names: of the command line of remove, of picopak.json for install
NamePool ==
    {<<"x">>, <<"y">>, <<".", ".">>, <<".">>, <<".", ".", "/", "s", "r", "c">>, <<"a", "/", "b">>, <<".", ".", "/", ".", ".">>, <<>>}

\* The disks the commands start from: a project with two installed
\* libraries beside another project, the same without libs, no project
InitialDisks ==
    {{<<<<"w">>>>, <<<<"w">>, <<"q">>>>, ProjectDir, <<<<"w">>, <<"p">>, <<"s", "r", "c">>>>, <<<<"w">>, <<"p">>, <<"l", "i", "b", "s">>>>, <<<<"w">>, <<"p">>, <<"l", "i", "b", "s">>, <<"x">>>>, <<<<"w">>, <<"p">>, <<"l", "i", "b", "s">>, <<"a">>>>, <<<<"w">>, <<"p">>, <<"l", "i", "b", "s">>, <<"a">>, <<"b">>>>},
     {<<<<"w">>>>, <<<<"w">>, <<"q">>>>, ProjectDir, <<<<"w">>, <<"p">>, <<"s", "r", "c">>>>},
     {<<<<"w">>>>, <<<<"w">>, <<"q">>>>}}

\* Commands in one behaviour
MaxCommands == 2

InitProject ==
    /\ cmp = IdleCmp /\ rsv = IdleRsv /\ heap = IdleIndex /\ cur = "r1"
    /\ last = IdleIndex /\ calls = 0 /\ dl = IdleDl /\ inst = IdleInst
    /\ sub = IdleSub /\ art = IdleArt /\ man = IdleMan /\ rem = IdleRem
    /\ pack = IdlePack /\ trip = IdleTrip
    /\ \E disk \in InitialDisks :
         proj = [runs |-> 0, op |-> "none", name |-> <<>>, exit |-> "none",
                 disk |-> disk, before |-> disk, removed |-> {}, copied |-> {}]

\* picopak remove <packageName>
RemoveCommand ==
    /\ proj.runs < MaxCommands
    /\ \E packageName \in NamePool :
         LET r == removeCommand(proj.disk, packageName, ProjectDir)
         IN  proj' = [runs |-> proj.runs + 1, op |-> "remove", name |-> packageName,
                      exit |-> r.exit, disk |-> r.disk, before |-> proj.disk,
                      removed |-> r.removed, copied |-> r.copied]
    /\ UNCHANGED <<cmp, rsv, heap, cur, last, calls, dl, inst, sub, art, man, rem,
                   pack, trip>>

\* picopak install <packageFile> of a package that extracts and whose
\* picopak.json gives the name
InstallPackage ==
    /\ proj.runs < MaxCommands
    /\ \E name \in NamePool, verified \in BOOLEAN :
         LET r == installPackage(proj.disk, name, ProjectDir, verified)
         IN  proj' = [runs |-> proj.runs + 1, op |-> "install", name |-> name,
                      exit |-> r.exit, disk |-> r.disk, before |-> proj.disk,
                      removed |-> r.removed, copied |-> r.copied]
    /\ UNCHANGED <<cmp, rsv, heap, cur, last, calls, dl, inst, sub, art, man, rem,
                   pack, trip>>

NextProject == RemoveCommand \/ InstallPackage

SpecProject == InitProject /\ [][NextProject]_vars

\* Strictly inside <projectDir>/libs
InsideLibs(p) ==
    Len(p) > Len(ProjectDir) + 1 /\ SubSeq(p, 1, Len(ProjectDir) + 1) = Append(ProjectDir, D_libs)

\* C30: every directory a command removed or copied a package into lies
\* strictly inside <projectDir>/libs, and every directory outside it that
\* was there before the command is there after it
C30_TouchesOnlyInsideLibs ==
    /\ \A p \in proj.removed \cup proj.copied : InsideLibs(p)
    /\ \A d \in proj.before : ~InsideLibs(d) => d \in proj.disk

(***************************************************************************)
(* Artifacts of releases built for one platform                            *)
(***************************************************************************)

\* The platform a release entry names for itself, when it is a known one
EmbeddedPlatform(release) ==
    IF toLowerCase(trim(release.platform)) \in Platforms
    THEN toLowerCase(trim(release.platform)) ELSE <<>>

\* C29: the top-level url of a release that names a known platform for
\* itself is never the artifact selected for another platform
C29_ForeignPlatformUrlNotSelected ==
    (art.pc = "done" /\ EmbeddedPlatform(art.release) # <<>>
        /\ EmbeddedPlatform(art.release) # art.platform
        /\ art.release.url # <<>>)
    => (art.result = Undefined \/ art.result.url # art.release.url)

(***************************************************************************)
(* submit.ts and resolver.ts together: a release is published into an      *)
(* index document, the document is written as JSON, and a client resolves  *)
(* the package at that version from the JSON it reads back.                *)
(***************************************************************************)

U_new == <<"url", "new">>
U_old == <<"url", "old">>
H_new == <<"a", "1">>
H_old == <<"b", "2">>

\* The supported platforms of metadata.platform_availability, in key order
SupportedLists == {<<P_rp2040>>, <<P_rp2350>>, <<P_rp2040, P_rp2350>>}

\* buildReleasePayload(metadata, artifactUrlOption) of a stable package: one
\* artifacts entry { url, sha256 } for each supported platform
releasePayload(version, supported, url, sha256) ==
    [version |-> version, prerelease |-> "false", description |-> 1,
     artifacts |-> [i \in 1..Len(supported) |->
                      [key |-> supported[i],
                       value |-> [url |-> url, sha256 |-> sha256]]]]

\* A release that is in the index from the start, for both platforms
Earlier(version) == releasePayload(version, <<P_rp2040, P_rp2350>>, U_old, H_old)

\* JSON.parse of the text JSON.stringify wrote for a release payload: the
\* members the payload has, every other member of an IndexRelease undefined
parsedRelease(rel) ==
    [version |-> rel.version, prerelease |-> rel.prerelease, platform |-> <<>>,
     url |-> <<>>, checksum |-> <<>>, sha256 |-> <<>>, artifact |-> Undefined,
     artifacts |-> MapValue([p \in {rel.artifacts[i].key : i \in 1..Len(rel.artifacts)} |->
                      LET i == CHOOSE j \in 1..Len(rel.artifacts) : rel.artifacts[j].key = p
                      IN  ObjectValue(<<>>, rel.artifacts[i].value.url, <<>>, <<>>, <<>>,
                                      <<>>, rel.artifacts[i].value.sha256, <<>>)]),
     assets |-> Undefined, platforms |-> Undefined, files |-> Undefined,
     downloads |-> Undefined]

\* The releases member of a package node as the client reads it
parsedReleases(releases) ==
    IF releases.kind = "array"
    THEN ArrayOf([i \in 1..Len(releases.items) |-> parsedRelease(releases.items[i])])
    ELSE IF releases.kind = "map"
    THEN MapOf([i \in 1..Len(releases.entries) |->
                  [key |-> releases.entries[i].key,
                   value |-> parsedRelease(releases.entries[i].value)]])
    ELSE IF releases.kind = "absent" THEN Undefined
    ELSE [kind |-> "other"]

parsedPackage(node) == Package(node.name, parsedReleases(node.releases), Undefined)

\* root.packages ?? root of the document JSON.parse gives for the text
\* JSON.stringify(updatedIndex) wrote  (findPackage, resolver.ts)
parsedIndex(h, ref) ==
    IF ~IsPkRef(h[ref].packages) THEN MapOf(<<>>)
    ELSE LET cell == h[h[ref].packages]
         IN  IF cell.kind = "array"
             THEN ArrayOf([i \in 1..Len(cell.items) |-> parsedPackage(cell.items[i])])
             ELSE MapOf([i \in 1..Len(cell.entries) |->
                           [key |-> cell.entries[i].key,
                            value |-> parsedPackage(cell.entries[i].value)]])

\* The packages members of the index files a release is published into
PublishedPackages ==
    { EmptyArray,
      EmptyMap,
      [kind |-> "array",
       items |-> <<Node(N_ab, 2, ReleasesArray(<<Earlier(IV_2_0_0)>>))>>],
      [kind |-> "array",
       items |-> <<Node(N_Ab, 2, ReleasesArray(<<Earlier(IV_1_0_0)>>))>>],
      [kind |-> "map",
       entries |-> <<[key |-> N_ab,
                      value |-> Node(N_ab, 2, ReleasesMap(<<[key |-> IV_2_0_0,
                                                  value |-> Earlier(IV_2_0_0)]>>))]>>],
      [kind |-> "map",
       entries |-> <<[key |-> N_Ab,
                      value |-> Node(N_Ab, 2, ReleasesMap(<<[key |-> IV_2_0_0,
                                                  value |-> Earlier(IV_2_0_0)]>>))]>>],
      [kind |-> "map",
       entries |-> <<[key |-> N_ab,
                      value |-> Node(N_ab, 2, ReleasesArray(<<Earlier(IV_2_0_0)>>))]>>],
      [kind |-> "map",
       entries |-> <<[key |-> N_cd,
                      value |-> Node(<<>>, 0, [kind |-> "absent"])]>>] }

PublishedHeaps ==
    {[r1 |-> [kind |-> "object", packages |-> "p1"], p1 |-> pk,
      r2 |-> [kind |-> "free", packages |-> "absent"], p2 |-> FreeCell] :
        pk \in PublishedPackages}
    \cup
    {[r1 |-> [kind |-> "object", packages |-> "absent"], p1 |-> FreeCell,
      r2 |-> [kind |-> "free", packages |-> "absent"], p2 |-> FreeCell]}

NotResolved == [ok |-> FALSE, message |-> "", release |-> Undefined]

InitRoundTrip ==
    /\ trip \in [pc : {"start"}, heap : PublishedHeaps, ref : {"r1"},
                 pkg : {<<>>}, version : {<<>>}, payload : {Undefined},
                 status : {"none"}, platform : {<<>>}, result : {NotResolved}]
    /\ proj = IdleProj
    /\ cmp = IdleCmp /\ rsv = IdleRsv /\ dl = IdleDl /\ inst = IdleInst
    /\ sub = IdleSub /\ art = IdleArt /\ man = IdleMan /\ rem = IdleRem
    /\ pack = IdlePack
    /\ heap = IdleIndex /\ cur = "r1" /\ last = IdleIndex /\ calls = 0

\* buildOptionalIndexUpdate: applyReleaseToIndex on the parsed index file;
\* index.updated.json is written when the call returns
PublishRelease ==
    /\ trip.pc = "start"
    /\ \E pkg \in PackageNames, version \in IndexVersions, supported \in SupportedLists :
         LET payload == releasePayload(version, supported, U_new, H_new)
             r == applyReleaseToIndex(trip.heap, trip.ref, pkg, version, payload)
         IN  trip' = [trip EXCEPT !.pc = IF r.status = "ok" THEN "published" ELSE "failed",
                                  !.heap = r.heap,
                                  !.ref = IF r.status = "ok" THEN r.ref ELSE @,
                                  !.pkg = pkg, !.version = version,
                                  !.payload = payload, !.status = r.status]
    /\ UNCHANGED <<proj, cmp, rsv, heap, cur, last, calls, dl, inst, sub, art, man,
                   rem, pack>>

\* resolveRemoteRelease(pkg, { version, platform }) on the published document
ResolvePublished ==
    /\ trip.pc = "published"
    /\ \E platform \in Platforms :
         trip' = [trip EXCEPT
                    !.pc = "resolved",
                    !.platform = platform,
                    !.result = resolveInIndex(parsedIndex(trip.heap, trip.ref), trip.pkg,
                                   [version |-> trip.version, includePrerelease |-> FALSE,
                                    platform |-> platform])]
    /\ UNCHANGED <<proj, cmp, rsv, heap, cur, last, calls, dl, inst, sub, art, man,
                   rem, pack>>

NextRoundTrip == PublishRelease \/ ResolvePublished

SpecRoundTrip == InitRoundTrip /\ [][NextRoundTrip]_vars

\* The platforms the payload has an artifact for
PayloadPlatforms ==
    {trip.payload.artifacts[i].key : i \in 1..Len(trip.payload.artifacts)}

\* C28: a release that was published is what the package resolves to at that
\* version, for each platform of the payload: the resolution succeeds with the
\* URL and the sha256 the payload gives.  (Versions are taken as written in
\* canonical form: no surrounding blanks, no leading v.)
C28_PublishedReleaseResolves ==
    (trip.pc = "resolved" /\ trip.platform \in PayloadPlatforms
        /\ Stripped(trip.version) = trip.version) =>
        /\ trip.result.ok
        /\ trip.result.resolved.downloadUrl = U_new
        /\ trip.result.resolved.checksum = H_new

====
